---- MODULE Spec2Model ----
(***************************************************************************)
(* voice2json: training (per-intent automata merged into intent.fst) and   *)
(* the recognize-intent command (get_recognizer, Recognizer.recognize and  *)
(* the sentence loop of __main__.recognize).                               *)
(*                                                                         *)
(* The automaton kernel and the modules voice2json.train.jsgf2fst,         *)
(* voice2json.intent.fsticuffs and voice2json.utils are not part of the    *)
(* sources at hand; their operators below follow the design document       *)
(* (sections 4.3 to 4.7) and are marked as such in the model map.          *)
(***************************************************************************)
EXTENDS Integers, Sequences, FiniteSets, TLC

VARIABLES
    grammars,      \* the profile's grammars: intent name -> Template
    slots,         \* the profile's slot files: slot name -> sequence of values
    settings,      \* the profile's intent-recognition settings
    args,          \* command line of recognize-intent or generate-examples
    fsts,          \* fsts_dir: artifact name -> Automaton (written by training)
    intent_fst,    \* intent.fst, None until do_intent_fst has written it
    recognizer,    \* the Recognizer returned by get_recognizer, None before
    sentences,     \* the input sentences not yet read by the loop
    consumed,      \* the input sentences already read by the loop, in order
    printed,       \* the records print_json has written, in order
    vocab,         \* vocab.txt, None until do_vocab has written it
    examples,      \* generate: the paths fstprintall yields, None before
    emitted,       \* generate: the lines written, in order
    pc,            \* position of the run (of the main thread)
    intent_whitelist, \* the intent whitelist file: None, or its lines
    used_intents,  \* train_profile's set of used intents
    failure,       \* the failure that ended the training run, None before
    audio_source,  \* record-examples: the stream, [read |-> chunks read so far]
    chunk,         \* record_audio: the chunk read last
    recording,     \* record-examples: the flag the main thread sets
    audio_data,    \* record-examples: the buffer both threads share
    loaded,        \* record_audio: the buffer as read for the append
    record_thread, \* position of the recording thread
    random_intent, \* record-examples: the intent of the current prompt
    wavs,          \* record-examples: the files saved, one per prompt
    heard          \* per prompt, the chunks read while recording was true

\* What train_profile reads before its tasks run, and how it ended.
train_vars == <<intent_whitelist, used_intents, failure>>

\* The state of record-examples.
record_vars == <<audio_source, chunk, recording, audio_data, loaded,
                 record_thread, random_intent, wavs, heard>>

vars == <<grammars, slots, settings, args, fsts, intent_fst, recognizer,
          sentences, consumed, printed, vocab, examples, emitted, pc,
          train_vars, record_vars>>

None == [k |-> "none"]

-----------------------------------------------------------------------------
(* Symbols.  A symbol is a record [k, v]: a word, epsilon, or one of the   *)
(* four reserved marker symbols.                                           *)

Word(w) == [k |-> "word", v |-> w]
Eps == [k |-> "eps", v |-> "<eps>"]
INTENT_OPEN(name) == [k |-> "intent_open", v |-> name]
INTENT_CLOSE == [k |-> "intent_close", v |-> ""]
ENTITY_OPEN(slot) == [k |-> "entity_open", v |-> slot]
ENTITY_CLOSE == [k |-> "entity_close", v |-> ""]

IsWord(sym) == sym.k = "word"

-----------------------------------------------------------------------------
(* Templates: the closed variant set of the data model.                    *)

Literal(w) == [k |-> "literal", w |-> w]
Sequence(ts) == [k |-> "sequence", ts |-> ts]
Alternation(ts) == [k |-> "alternation", ts |-> ts]
Optional(t) == [k |-> "optional", t |-> t]
SlotRef(name) == [k |-> "slotref", name |-> name]
RuleRef(name) == [k |-> "ruleref", name |-> name]
Tagged(t, slot) == [k |-> "tagged", t |-> t, slot |-> slot]

-----------------------------------------------------------------------------
(* Automata: states are integers, arcs are kept in construction order.     *)
(* An automaton under construction is [start, finals, arcs, next], next    *)
(* being the first unused state id.                                        *)

\* An arc whose entity marker is its input symbol too.
Arc_MarkerConsumed(from, to, i, o) ==
    [from |-> from, to |-> to,
     i |-> IF o.k \in {"entity_open", "entity_close"} THEN [k |-> "word", v |-> o.k] ELSE i,
     o |-> o]

Arc(from, to, i, o) == [from |-> from, to |-> to, i |-> i, o |-> o]

ArcsOf(a) == {a.arcs[n] : n \in 1..Len(a.arcs)}

\* A joining of states that drops the output symbol of the joining arcs.
EpsArcsUnmarked(froms, to, o) ==
    LET RECURSIVE Go(_)
        Go(S) == IF S = {} THEN <<>>
                 ELSE LET q == CHOOSE x \in S : \A y \in S : x <= y
                      IN  <<Arc(q, to, Eps, Eps)>> \o Go(S \ {q})
    IN  Go(froms)

EpsArcs(froms, to, o) ==
    LET RECURSIVE Go(_)
        Go(S) == IF S = {} THEN <<>>
                 ELSE LET q == CHOOSE x \in S : \A y \in S : x <= y
                      IN  <<Arc(q, to, Eps, o)>> \o Go(S \ {q})
    IN  Go(froms)

\* A copy of automaton a with every state id shifted by base.
Splice(a, base) ==
    [start  |-> a.start + base,
     finals |-> {q + base : q \in a.finals},
     arcs   |-> [n \in 1..Len(a.arcs) |->
                   Arc(a.arcs[n].from + base, a.arcs[n].to + base,
                       a.arcs[n].i, a.arcs[n].o)],
     next   |-> a.next + base]

RECURSIVE Compile(_, _, _)
RECURSIVE CompileSequence(_, _, _, _)
RECURSIVE CompileAlternation(_, _, _, _, _, _)

\* Sequence[T1..Tn] from element n on; cur is the automaton built so far.
CompileSequence(ts, n, cur, env) ==
    IF n > Len(ts) THEN cur
    ELSE LET a == Compile(ts[n], cur.next, env)
         IN  CompileSequence(ts, n + 1,
                 [start  |-> cur.start,
                  finals |-> a.finals,
                  arcs   |-> cur.arcs \o EpsArcs(cur.finals, a.start, Eps) \o a.arcs,
                  next   |-> a.next],
                 env)

\* Alternation[T1..Tn] from branch n on; start and accept are the new shared
\* states, arcs the arcs so far, next the first unused id.
CompileAlternation(ts, n, start, accept, cur, env) ==
    IF n > Len(ts) THEN cur
    ELSE LET a == Compile(ts[n], cur.next, env)
         IN  CompileAlternation(ts, n + 1, start, accept,
                 [start  |-> start,
                  finals |-> {accept},
                  arcs   |-> cur.arcs \o <<Arc(start, a.start, Eps, Eps)>> \o a.arcs
                                 \o EpsArcs(a.finals, accept, Eps),
                  next   |-> a.next],
                 env)

Compile(t, base, env) ==
    CASE t.k = "literal" ->
           [start |-> base, finals |-> {base + 1},
            arcs |-> <<Arc(base, base + 1, Word(t.w), Word(t.w))>>,
            next |-> base + 2]
      [] t.k = "sequence" ->
           CompileSequence(t.ts, 1,
               [start |-> base, finals |-> {base}, arcs |-> <<>>, next |-> base + 1],
               env)
      [] t.k = "alternation" ->
           CompileAlternation(t.ts, 1, base, base + 1,
               [start |-> base, finals |-> {base + 1}, arcs |-> <<>>, next |-> base + 2],
               env)
      [] t.k = "optional" ->
           Compile(Alternation(<<t.t, Sequence(<<>>)>>), base, env)
      [] t.k \in {"slotref", "ruleref"} ->
           Splice(env[t.name], base)
      [] t.k = "tagged" ->
           LET a == Compile(t.t, base + 1, env)
           IN  [start  |-> base,
                finals |-> {a.next},
                arcs   |-> <<Arc(base, a.start, Eps, ENTITY_OPEN(t.slot))>> \o a.arcs
                               \o EpsArcs(a.finals, a.next, ENTITY_CLOSE),
                next   |-> a.next + 1]

-----------------------------------------------------------------------------
(* Compiled artifacts.                                                     *)

Automaton(a) == [start |-> a.start, finals |-> a.finals, arcs |-> a.arcs, next |-> a.next]

RECURSIVE Literals(_, _)
Literals(values, n) ==
    IF n > Len(values) THEN <<>> ELSE <<Literal(values[n])>> \o Literals(values, n + 1)

\* One automaton per slot: the union of its literal values.
slots_to_fsts(slot_values) ==
    Automaton(Compile(Alternation(Literals(slot_values, 1)), 0, <<>>))

\* The automaton of one grammar, its references replaced by replace_fsts.
grammar_to_fsts(grammar, replace_fsts) ==
    Automaton(Compile(grammar, 0, replace_fsts))

\* Union of the per-intent automata, each branch wrapped in
\* INTENT_OPEN(name) / INTENT_CLOSE; intent_fsts is the dict in its
\* iteration order, a sequence of [name, fst].
RECURSIVE MergeFrom(_, _, _)
MergeFrom(intent_fsts, n, cur) ==
    IF n > Len(intent_fsts) THEN cur
    ELSE LET a == Splice(intent_fsts[n].fst, cur.next)
         IN  MergeFrom(intent_fsts, n + 1,
                 [start  |-> cur.start,
                  finals |-> cur.finals,
                  arcs   |-> cur.arcs
                                 \o <<Arc(cur.start, a.start, Eps, INTENT_OPEN(intent_fsts[n].name))>>
                                 \o a.arcs
                                 \o EpsArcs(a.finals, 1, INTENT_CLOSE),
                  next   |-> a.next])

make_intent_fst(intent_fsts) ==
    Automaton(MergeFrom(intent_fsts, 1,
                  [start |-> 0, finals |-> {1}, arcs |-> <<>>, next |-> 2]))

\* The input symbol table: epsilon first, then every input symbol in order
\* of first use.
RECURSIVE SymbolsFrom(_, _, _)
SymbolsFrom(arcs, n, table) ==
    IF n > Len(arcs) THEN table
    ELSE SymbolsFrom(arcs, n + 1,
             IF \E j \in 1..Len(table) : table[j] = arcs[n].i
             THEN table ELSE Append(table, arcs[n].i))

input_symbols(a) == SymbolsFrom(a.arcs, 1, <<Eps>>)

-----------------------------------------------------------------------------
(* Text.  A text is a sequence of characters of which only two kinds are   *)
(* told apart: a whole word, and the blank Sp between words.               *)

Sp == " "

RECURSIVE Join(_)
Join(tokens) ==
    IF tokens = <<>> THEN <<>>
    ELSE IF Len(tokens) = 1 THEN tokens
    ELSE <<tokens[1], Sp>> \o Join(Tail(tokens))

\* re.split on whitespace of a stripped text: the words between blanks.
Split(text) == SelectSeq(text, LAMBDA c : c # Sp)

RECURSIVE Strip(_)
Strip(text) ==
    IF text = <<>> THEN text
    ELSE IF text[1] = Sp THEN Strip(Tail(text))
    ELSE IF text[Len(text)] = Sp THEN Strip(SubSeq(text, 1, Len(text) - 1))
    ELSE text

-----------------------------------------------------------------------------
(* Paths.  A path is the sequence of the indices (into arcs) of the arcs   *)
(* it takes.                                                               *)

IsFinal(a, q) == q \in a.finals

\* Every path from state q to an accepting state.
RECURSIVE PathsFrom(_, _)
PathsFrom(a, q) ==
    (IF IsFinal(a, q) THEN {<<>>} ELSE {})
    \cup UNION {{<<n>> \o p : p \in PathsFrom(a, a.arcs[n].to)} :
                   n \in {m \in 1..Len(a.arcs) : a.arcs[m].from = q}}

AllPaths(a) == PathsFrom(a, a.start)

\* Every path from state q to an accepting state that consumes exactly the
\* tokens from position pos on; epsilon-input arcs consume nothing.
RECURSIVE PathsConsuming(_, _, _, _)
PathsConsuming(a, tokens, q, pos) ==
    (IF IsFinal(a, q) /\ pos > Len(tokens) THEN {<<>>} ELSE {})
    \cup UNION {
           IF a.arcs[n].i = Eps
           THEN {<<n>> \o p : p \in PathsConsuming(a, tokens, a.arcs[n].to, pos)}
           ELSE IF pos <= Len(tokens) /\ a.arcs[n].i = Word(tokens[pos])
           THEN {<<n>> \o p : p \in PathsConsuming(a, tokens, a.arcs[n].to, pos + 1)}
           ELSE {} :
           n \in {m \in 1..Len(a.arcs) : a.arcs[m].from = q}}

\* Construction order on paths: at the first state where two paths part,
\* the one taking the arc added earlier comes first; a path that stops in
\* an accepting state comes before its continuations.
RECURSIVE Earlier(_, _)
Earlier(p, q) ==
    IF p = <<>> THEN q # <<>>
    ELSE IF q = <<>> THEN FALSE
    ELSE IF p[1] # q[1] THEN p[1] < q[1]
    ELSE Earlier(Tail(p), Tail(q))

\* A choice among tied paths that is left open.
AnyPath(paths) == paths

First(paths) == {p \in paths : \A q \in paths : q = p \/ Earlier(p, q)}

OutputSymbols(a, p) ==
    SelectSeq([n \in 1..Len(p) |-> a.arcs[p[n]].o], LAMBDA sym : sym # Eps)

InputWords(a, p) ==
    LET ins == SelectSeq([n \in 1..Len(p) |-> a.arcs[p[n]].i], LAMBDA sym : sym # Eps)
    IN  [n \in 1..Len(ins) |-> ins[n].v]

-----------------------------------------------------------------------------
(* Symbol Decoder.                                                         *)

Null == ""

Confidence(matched, total) == <<matched, total>>

empty_intent ==
    [text |-> <<>>, tokens |-> <<>>,
     intent |-> [name |-> Null, confidence |-> Confidence(0, 1)],
     entities |-> <<>>]

MalformedPathError == [error |-> "MalformedPathError"]

IsIntent(r) == DOMAIN r = DOMAIN empty_intent

\* A step that gives a word inside an entity scope to the buffer of the
\* scope only.
DecodeStep_ScopedWords(d, sym) ==
    CASE sym.k = "intent_open" ->
           [d EXCEPT !.name = sym.v,
                     !.stack = <<[scope |-> "intent", slot |-> "", start |-> Len(d.tokens),
                                  buffer |-> <<>>]>> \o @]
      [] sym.k = "entity_open" ->
           [d EXCEPT !.stack = <<[scope |-> "entity", slot |-> sym.v,
                                  start |-> Len(d.tokens), buffer |-> <<>>]>> \o @]
      [] sym.k = "word" ->
           IF d.stack # <<>> /\ d.stack[1].scope = "entity"
           THEN [d EXCEPT !.stack = <<[@[1] EXCEPT !.buffer = Append(@, sym.v)]>> \o Tail(@)]
           ELSE [d EXCEPT !.tokens = Append(@, sym.v)]
      [] sym.k = "entity_close" ->
           IF d.stack = <<>> \/ d.stack[1].scope # "entity" THEN [d EXCEPT !.bad = TRUE]
           ELSE [d EXCEPT !.stack = Tail(@),
                          !.entities = Append(@, [entity |-> d.stack[1].slot,
                                                  value  |-> Join(d.stack[1].buffer),
                                                  start  |-> d.stack[1].start,
                                                  end    |-> Len(d.tokens)])]
      [] sym.k = "intent_close" ->
           IF d.stack = <<>> \/ d.stack[1].scope # "intent" THEN [d EXCEPT !.bad = TRUE]
           ELSE [d EXCEPT !.stack = Tail(@)]
      [] OTHER -> d

\* One step of the pass: d is [tokens, stack, entities, name, bad];
\* a stack entry is an open scope [scope, slot, start, buffer].
DecodeStep(d, sym) ==
    CASE sym.k = "intent_open" ->
           [d EXCEPT !.name = sym.v,
                     !.stack = <<[scope |-> "intent", slot |-> "", start |-> Len(d.tokens),
                                  buffer |-> <<>>]>> \o @]
      [] sym.k = "entity_open" ->
           [d EXCEPT !.stack = <<[scope |-> "entity", slot |-> sym.v,
                                  start |-> Len(d.tokens), buffer |-> <<>>]>> \o @]
      [] sym.k = "word" ->
           [d EXCEPT !.tokens = Append(@, sym.v),
                     !.stack = IF @ # <<>> /\ @[1].scope = "entity"
                               THEN <<[@[1] EXCEPT !.buffer = Append(@, sym.v)]>> \o Tail(@)
                               ELSE @]
      [] sym.k = "entity_close" ->
           IF d.stack = <<>> \/ d.stack[1].scope # "entity" THEN [d EXCEPT !.bad = TRUE]
           ELSE [d EXCEPT !.stack = Tail(@),
                          !.entities = Append(@, [entity |-> d.stack[1].slot,
                                                  value  |-> Join(d.stack[1].buffer),
                                                  start  |-> d.stack[1].start,
                                                  end    |-> Len(d.tokens)])]
      [] sym.k = "intent_close" ->
           IF d.stack = <<>> \/ d.stack[1].scope # "intent" THEN [d EXCEPT !.bad = TRUE]
           ELSE [d EXCEPT !.stack = Tail(@)]
      [] OTHER -> d

RECURSIVE DecodeFrom(_, _, _)
DecodeFrom(symbols, n, d) ==
    IF n > Len(symbols) \/ d.bad THEN d
    ELSE DecodeFrom(symbols, n + 1, DecodeStep(d, symbols[n]))

symbols2intent(symbols) ==
    LET d == DecodeFrom(symbols, 1,
                 [tokens |-> <<>>, stack |-> <<>>, entities |-> <<>>, name |-> Null,
                  bad |-> FALSE])
    IN  IF d.bad \/ d.stack # <<>> THEN MalformedPathError
        ELSE [text |-> Join(d.tokens), tokens |-> d.tokens,
              intent |-> [name |-> d.name, confidence |-> Confidence(1, 1)],
              entities |-> d.entities]

-----------------------------------------------------------------------------
(* Recognizer, strict.  recognize is the set of results a call may return: *)
(* the decoding of the accepting path that comes first in construction     *)
(* order, or the empty intent when no path accepts.  With a non-empty      *)
(* known-token set the pre-pass drops the tokens outside it.               *)

KnownOnly(tokens, known_tokens) ==
    IF known_tokens = {} THEN tokens
    ELSE SelectSeq(tokens, LAMBDA w : w \in known_tokens)

recognize(fst, text, known_tokens) ==
    LET tokens == KnownOnly(Split(text), known_tokens)
        paths  == PathsConsuming(fst, tokens, fst.start, 1)
    IN  IF paths = {} THEN {empty_intent}
        ELSE {symbols2intent(OutputSymbols(fst, p)) : p \in First(paths)}

-----------------------------------------------------------------------------
(* Recognizer, fuzzy.                                                      *)

\* Nodes are the states, edges the arcs with their symbols.
fst_to_graph(fst) ==
    [nodes |-> 0..(fst.next - 1), start |-> fst.start, finals |-> fst.finals,
     arcs |-> fst.arcs]

Max(x, y) == IF x >= y THEN x ELSE y

\* A token left unmatched may be skipped when it is a stop word or when
\* unknown tokens are skipped (a non-empty known-token set); any other
\* unmatched token ends the exact matching at that point.
Skippable(w, known_tokens, stop_words) == w \in stop_words \/ known_tokens # {}

\* The best alignment of tokens with the words of one path, as a weight:
\* unit for every exact match, less one for every stop word among the
\* matched tokens (skipping a stop word is free, so it is better skipped
\* than another token).  row is the line of the table for the next token.
RECURSIVE AlignRow(_, _, _, _, _, _, _)
AlignRow(w, words, below, j, right, unit, ctx) ==
    IF j = 0 THEN right
    ELSE LET skip   == IF Skippable(w, ctx.known_tokens, ctx.stop_words)
                       THEN below[j] ELSE 0
             insert == right[1]
             match  == IF w = words[j]
                       THEN unit - (IF w \in ctx.stop_words THEN 1 ELSE 0) + below[j + 1]
                       ELSE 0
         IN  AlignRow(w, words, below, j - 1,
                      <<Max(skip, Max(insert, match))>> \o right, unit, ctx)

RECURSIVE AlignFrom(_, _, _, _, _, _)
AlignFrom(tokens, words, n, below, unit, ctx) ==
    IF n = 0 THEN below[1]
    ELSE AlignFrom(tokens, words, n - 1,
                   AlignRow(tokens[n], words, below, Len(words), <<0>>, unit, ctx),
                   unit, ctx)

\* [matched, cost, length] of path p: the exact matches, the skipped tokens
\* that are no stop words plus the words of the path no token matched, and
\* the length of the path.
Score(graph, p, tokens, known_tokens, stop_words) ==
    LET words   == InputWords(graph, p)
        unit    == Len(tokens) + 1
        weight  == AlignFrom(tokens, words, Len(tokens),
                             [j \in 1..(Len(words) + 1) |-> 0], unit,
                             [known_tokens |-> known_tokens, stop_words |-> stop_words])
        matched == (weight + unit - 1) \div unit
        stops   == matched * unit - weight
        nonstop == Len(SelectSeq(tokens, LAMBDA w : w \notin stop_words))
    IN  [matched |-> matched,
         cost    |-> (nonstop - (matched - stops)) + (Len(words) - matched),
         length  |-> Len(p)]

\* An order that looks at the length of the path before its cost.
Better_LengthFirst(s, t) ==
    \/ s.matched > t.matched
    \/ s.matched = t.matched /\ s.length < t.length
    \/ s.matched = t.matched /\ s.length = t.length /\ s.cost < t.cost

Better(s, t) ==
    \/ s.matched > t.matched
    \/ s.matched = t.matched /\ s.cost < t.cost
    \/ s.matched = t.matched /\ s.cost = t.cost /\ s.length < t.length

\* The paths no other path beats: more exact matches, then lower cost, then
\* shorter, then earlier in construction order.
Best(scored) ==
    {c \in scored : \A d \in scored :
        \/ d = c
        \/ Better(c.score, d.score)
        \/ ~Better(d.score, c.score) /\ Earlier(c.path, d.path)}

\* A fuzzy function that reports its best path whether or not a token
\* matched on it.
recognize_fuzzy_AnyPath(graph, text, known_tokens, stop_words) ==
    LET tokens == Split(text)
        scored == {[path |-> p, score |-> Score(graph, p, tokens, known_tokens, stop_words)] :
                      p \in AllPaths(graph)}
    IN  {[symbols2intent(OutputSymbols(graph, c.path)) EXCEPT
             !.intent.confidence = Confidence(c.score.matched, Len(tokens) + 1)] :
            c \in Best(scored)}

recognize_fuzzy(graph, text, known_tokens, stop_words) ==
    LET tokens == Split(text)
        scored == {[path |-> p, score |-> Score(graph, p, tokens, known_tokens, stop_words)] :
                      p \in AllPaths(graph)}
        some   == {c \in scored : c.score.matched > 0}
    IN  IF some = {} THEN {empty_intent}
        ELSE {[symbols2intent(OutputSymbols(graph, c.path)) EXCEPT
                  !.intent.confidence = Confidence(c.score.matched, Len(tokens))] :
                 c \in Best(some)}

-----------------------------------------------------------------------------
(* Letter case.  CasePairs lists every word with its upper-case form.      *)

CasePairs ==
    {<<"what", "WHAT">>, <<"time", "TIME">>, <<"is", "IS">>, <<"it", "IT">>,
     <<"turn", "TURN">>, <<"on", "ON">>, <<"off", "OFF">>, <<"the", "THE">>,
     <<"kitchen", "KITCHEN">>, <<"hall", "HALL">>, <<"light", "LIGHT">>,
     <<"please", "PLEASE">>, <<"uh", "UH">>, <<"garage", "GARAGE">>}

Lower(c) == IF \E pr \in CasePairs : pr[2] = c
            THEN (CHOOSE pr \in CasePairs : pr[2] = c)[1] ELSE c

Upper(c) == IF \E pr \in CasePairs : pr[1] = c
            THEN (CHOOSE pr \in CasePairs : pr[1] = c)[2] ELSE c

lower(text) == [n \in 1..Len(text) |-> Lower(text[n])]
upper(text) == [n \in 1..Len(text) |-> Upper(text[n])]

-----------------------------------------------------------------------------
(* get_recognizer and the two Recognizer classes.                          *)

AttributeError == [error |-> "AttributeError"]
JSONDecodeError == [error |-> "JSONDecodeError"]

IsError(r) == DOMAIN r = {"error"}

\* Every symbol of the input symbol table, <eps> among them.
KnownTokens_Unfiltered(fst) ==
    LET in_symbols == input_symbols(fst)
    IN  {in_symbols[n].v : n \in 1..Len(in_symbols)}

\* The words of the input symbol table: no meta token, no <eps>.
KnownTokens(fst) ==
    LET in_symbols == input_symbols(fst)
    IN  {in_symbols[n].v : n \in {m \in 1..Len(in_symbols) : IsWord(in_symbols[m])}}

\* A get_recognizer that builds known_tokens whatever skip_unknown says.
get_recognizer_AlwaysKnown(profile, fst) ==
    IF profile.stop_words_path # None THEN AttributeError
    ELSE IF profile.fuzzy
    THEN [class |-> "FuzzyRecognizer", intent_graph |-> fst_to_graph(fst),
          known_tokens |-> KnownTokens(fst), lower_case |-> profile.lower_case,
          stop_words |-> {}]
    ELSE [class |-> "StrictRecognizer", intent_fst |-> fst,
          known_tokens |-> KnownTokens(fst), lower_case |-> profile.lower_case]

\* stop_words is a set, and a set has no extend: with a stop-word file
\* configured, loading its lines raises.
get_recognizer(profile, fst) ==
    LET stop_words   == {}
        known_tokens == IF profile.skip_unknown THEN KnownTokens(fst) ELSE {}
    IN  IF profile.stop_words_path # None THEN AttributeError
        ELSE IF profile.fuzzy
        THEN [class |-> "FuzzyRecognizer", intent_graph |-> fst_to_graph(fst),
              known_tokens |-> known_tokens, lower_case |-> profile.lower_case,
              stop_words |-> stop_words]
        ELSE [class |-> "StrictRecognizer", intent_fst |-> fst,
              known_tokens |-> known_tokens, lower_case |-> profile.lower_case]

FuzzyRecognizer_recognize(self, text) ==
    recognize_fuzzy(self.intent_graph,
                    IF self.lower_case THEN lower(text) ELSE text,
                    self.known_tokens, self.stop_words)

\* A strict method that lowers the text whatever lower_case says.
StrictRecognizer_recognize_Lowered(self, text) ==
    recognize(self.intent_fst, lower(text), self.known_tokens)

\* A strict method that does not hand its known tokens on.
StrictRecognizer_recognize_AllTokens(self, text) ==
    recognize(self.intent_fst, IF self.lower_case THEN lower(text) ELSE text, {})

\* A strict method that calls the fuzzy function.
StrictRecognizer_recognize_Fuzzy(self, text) ==
    recognize_fuzzy(fst_to_graph(self.intent_fst),
                    IF self.lower_case THEN lower(text) ELSE text,
                    self.known_tokens, {})

StrictRecognizer_recognize(self, text) ==
    recognize(self.intent_fst,
              IF self.lower_case THEN lower(text) ELSE text,
              self.known_tokens)

Recognizer_recognize(self, text) ==
    IF self.class = "FuzzyRecognizer"
    THEN FuzzyRecognizer_recognize(self, text)
    ELSE StrictRecognizer_recognize(self, text)

-----------------------------------------------------------------------------
(* Training: train_profile's actions.                                      *)

RECURSIVE Refs(_)
RECURSIVE RefsOfAll(_, _)
RefsOfAll(ts, n) == IF n > Len(ts) THEN {} ELSE Refs(ts[n]) \cup RefsOfAll(ts, n + 1)

\* get_grammar_dependencies: the slots and rules a grammar refers to.
Refs(t) ==
    CASE t.k \in {"slotref", "ruleref"} -> {t.name}
      [] t.k \in {"sequence", "alternation"} -> RefsOfAll(t.ts, 1)
      [] t.k \in {"optional", "tagged"} -> Refs(t.t)
      [] OTHER -> {}

\* The orders in which a set may be iterated.
Orders(S) ==
    {o \in [1..Cardinality(S) -> S] : \A m, n \in DOMAIN o : o[m] = o[n] => m = n}

\* The slots (kind "slotref") or rules (kind "ruleref") a template refers
\* to: the nodes of its dependency graph by type.
RECURSIVE Uses(_, _)
Uses(t, kind) ==
    CASE t.k = kind -> {t.name}
      [] t.k \in {"sequence", "alternation"} ->
            UNION {Uses(t.ts[n], kind) : n \in 1..Len(t.ts)}
      [] t.k \in {"optional", "tagged"} -> Uses(t.t, kind)
      [] OTHER -> {}

\* A set of intents that the whitelist adds to and never replaces.
Intents_NoClear(sections, whitelist) ==
    LET lines == IF whitelist = None THEN <<>> ELSE whitelist.lines
    IN  sections \cup {Strip(lines[n])[1] :
                          n \in {m \in 1..Len(lines) : Len(Strip(lines[m])) > 0}}

\* Lines 82 to 100: every section of the sentences file, unless the
\* whitelist has a line that is not blank; then the stripped lines that
\* are not blank.  A whitelist line holds one name at most.
Intents(sections, whitelist) ==
    LET lines == IF whitelist = None THEN <<>> ELSE whitelist.lines
        named == {Strip(lines[n])[1] :
                     n \in {m \in 1..Len(lines) : Len(Strip(lines[m])) > 0}}
    IN  IF named = {} THEN sections ELSE named

\* used_slots of task_grammar_fsts.
used_slots ==
    UNION {Uses(grammars[intent], "slotref") :
              intent \in used_intents \cap DOMAIN grammars}

\* The tasks that write a file the grammar task of an intent lists in
\* file_dep: the task runner runs them first.
TaskDeps(intent) ==
    IF intent \in DOMAIN grammars
    THEN Uses(grammars[intent], "ruleref") \cap used_intents
    ELSE {}

RECURSIVE Closure(_)
Closure(S) ==
    LET T == S \cup UNION {TaskDeps(n) : n \in S}
    IN  IF T = S THEN S ELSE Closure(T)

\* The tasks a grammar task waits for, directly or not.
Reach(intent) == Closure(TaskDeps(intent))

OnCycle(intent) == intent \in Reach(intent)

\* The failures of the task runner: a file in file_dep that no task
\* writes and that is not there, or tasks that wait for each other.
DependencyError(task, file) ==
    [error |-> "DependencyError", task |-> task, names |-> {file}]

CyclicDependency(task, chain) ==
    [error |-> "CyclicDependency", task |-> task, names |-> chain]

SlotTask == "slot_fsts"

\* A merge that leaves the first intent out.
do_intent_fst_SkipFirst(intents, fsts_dir) ==
    make_intent_fst([n \in 1..(Len(intents) - 1) |->
                        [name |-> intents[n + 1], fst |-> fsts_dir[intents[n + 1]]]])

\* A merge that pairs each name with the automaton of the next intent.
do_intent_fst_Shifted(intents, fsts_dir) ==
    make_intent_fst([n \in 1..Len(intents) |->
                        [name |-> intents[n],
                         fst |-> fsts_dir[intents[(n % Len(intents)) + 1]]]])

do_intent_fst(intents, fsts_dir) ==
    make_intent_fst([n \in 1..Len(intents) |->
                        [name |-> intents[n], fst |-> fsts_dir[intents[n]]]])

do_grammar_to_fsts(grammar, replace_fsts) == grammar_to_fsts(grammar, replace_fsts)

\* task_grammars and task_grammar_dependencies: a grammar file and its
\* dependency graph for every used intent.  An intent of the whitelist
\* that is no section has no grammar file for its graph to be made of.
DoGrammarDependencies ==
    /\ pc = "grammars"
    /\ IF used_intents \subseteq DOMAIN grammars
       THEN /\ pc' = "train"
            /\ failure' = failure
       ELSE /\ pc' = "failed"
            /\ \E intent \in used_intents \ DOMAIN grammars :
                  failure' = DependencyError(intent, intent)
    /\ UNCHANGED <<record_vars, intent_whitelist, used_intents, grammars, slots,
                   settings, args, fsts, intent_fst, recognizer, sentences,
                   consumed, printed, vocab, examples, emitted>>

\* The subtask slot_fsts exists when a slot is used; it runs when every
\* slot file it lists is there.
DoSlotsToFst ==
    /\ pc = "train"
    /\ used_slots \subseteq DOMAIN slots
    /\ \E slot_name \in used_slots : fsts[slot_name] = None
    /\ fsts' = [name \in DOMAIN fsts |->
                   IF name \in used_slots THEN slots_to_fsts(slots[name]) ELSE fsts[name]]
    /\ UNCHANGED <<train_vars, record_vars, grammars, slots, settings, args, intent_fst, recognizer,
                   sentences, consumed, printed, vocab, examples, emitted, pc>>

\* A grammar step that does not wait for what the grammar refers to: an
\* automaton not yet stored is read as an empty one.
DoGrammarToFsts_Unordered(intent) ==
    /\ pc = "train"
    /\ intent \in DOMAIN grammars
    /\ fsts[intent] = None
    /\ fsts' = [fsts EXCEPT ![intent] =
                   do_grammar_to_fsts(grammars[intent],
                       [name \in Refs(grammars[intent]) |->
                           IF fsts[name] # None THEN fsts[name]
                           ELSE slots_to_fsts(<<>>)])]
    /\ UNCHANGED <<train_vars, record_vars, grammars, slots, settings, args, intent_fst, recognizer,
                   sentences, consumed, printed, vocab, examples, emitted, pc>>

DoGrammarToFsts(intent) ==
    /\ pc = "train"
    /\ intent \in DOMAIN grammars
    /\ fsts[intent] = None
    /\ \A name \in Refs(grammars[intent]) : fsts[name] # None
    /\ fsts' = [fsts EXCEPT ![intent] =
                   do_grammar_to_fsts(grammars[intent],
                       [name \in Refs(grammars[intent]) |-> fsts[name]])]
    /\ UNCHANGED <<train_vars, record_vars, grammars, slots, settings, args, intent_fst, recognizer,
                   sentences, consumed, printed, vocab, examples, emitted, pc>>

\* The failures of the subtasks of grammar_fsts, each found when the
\* task runner comes to the task: slot_fsts lists a slot file that is not
\* there; a grammar task lists the automaton of a rule that no task
\* writes; or grammar tasks wait for each other, which is found on the way
\* from a task to the first task met twice.
TaskFailures ==
    {DependencyError(SlotTask, name) : name \in used_slots \ DOMAIN slots}
    \cup
    UNION {{DependencyError(intent, name) :
               name \in Uses(grammars[intent], "ruleref") \ used_intents} :
           intent \in {i \in used_intents :
                          /\ fsts[i] = None
                          /\ \A name \in TaskDeps(i) : fsts[name] # None}}
    \cup
    UNION {{CyclicDependency(twice,
                {n \in {intent} \cup Reach(intent) : twice \in {n} \cup Reach(n)}) :
               twice \in {n \in {intent} \cup Reach(intent) : OnCycle(n)}} :
           intent \in {i \in used_intents : fsts[i] = None}}

\* A failure that names, of tasks that wait for each other, only the task
\* met twice.
TaskFails_TaskOnly ==
    /\ pc = "train"
    /\ \E f \in TaskFailures :
          failure' = IF f.error = "CyclicDependency"
                     THEN CyclicDependency(f.task, {f.task}) ELSE f
    /\ pc' = "failed"
    /\ UNCHANGED <<record_vars, intent_whitelist, used_intents, grammars, slots,
                   settings, args, fsts, intent_fst, recognizer, sentences,
                   consumed, printed, vocab, examples, emitted>>

\* A failure after which the task runner goes on with the tasks that do
\* not wait for the failed one.
TaskFails_Continue ==
    /\ pc = "train"
    /\ failure = None
    /\ \E f \in TaskFailures : failure' = f
    /\ UNCHANGED <<record_vars, intent_whitelist, used_intents, grammars, slots,
                   settings, args, fsts, intent_fst, recognizer, sentences,
                   consumed, printed, vocab, examples, emitted, pc>>

\* A failed task ends the run: no task runs after it.
TaskFails ==
    /\ pc = "train"
    /\ \E f \in TaskFailures : failure' = f
    /\ pc' = "failed"
    /\ UNCHANGED <<record_vars, intent_whitelist, used_intents, grammars, slots,
                   settings, args, fsts, intent_fst, recognizer, sentences,
                   consumed, printed, vocab, examples, emitted>>

DoIntentFst ==
    /\ pc = "train"
    /\ \A intent \in used_intents : fsts[intent] # None
    /\ \E intents \in Orders(used_intents) :
           intent_fst' = do_intent_fst(intents, fsts)
    /\ pc' = "vocab"
    /\ UNCHANGED <<train_vars, record_vars, grammars, slots, settings, args, fsts, recognizer,
                   sentences, consumed, printed, vocab, examples, emitted>>

\* The words of intent.fst's input symbol table, one per line: no symbol
\* that starts with "__" or "<".
do_vocab(fst) ==
    LET words == SelectSeq(input_symbols(fst), IsWord)
    IN  [lines |-> [n \in 1..Len(words) |-> words[n].v]]

DoVocab ==
    /\ pc = "vocab"
    /\ vocab' = do_vocab(intent_fst)
    /\ pc' = "trained"
    /\ UNCHANGED <<train_vars, record_vars, grammars, slots, settings, args, fsts, intent_fst, recognizer,
                   sentences, consumed, printed, examples, emitted>>

-----------------------------------------------------------------------------
(* The recognize-intent command.                                           *)

GetRecognizer ==
    /\ pc = "trained"
    /\ args.command = "recognize-intent"
    /\ recognizer' = get_recognizer(settings, intent_fst)
    /\ pc' = IF IsError(recognizer') THEN "crashed"
             ELSE IF sentences = <<>> THEN "done" ELSE "loop"
    /\ UNCHANGED <<train_vars, record_vars, grammars, slots, settings, args, fsts, intent_fst,
                   sentences, consumed, printed, vocab, examples, emitted>>

\* json.loads of a line that is no JSON object raises.
SentenceObject(sentence) ==
    IF args.text_input THEN [text |-> sentence.text, wav_name |-> ""]
    ELSE IF sentence.kind = "object"
    THEN [text |-> sentence.text, wav_name |-> sentence.wav_name]
    ELSE JSONDecodeError

WordCasing(text) ==
    CASE settings.word_casing = "upper" -> upper(text)
      [] settings.word_casing = "lower" -> lower(text)
      [] OTHER -> text

\* sentence_object updated with every key of intent.
Merged(sentence_object, intent, perplexity) ==
    [text |-> intent.text, tokens |-> intent.tokens, intent |-> intent.intent,
     entities |-> intent.entities, wav_name |-> sentence_object.wav_name,
     perplexity |-> perplexity]

\* A pass of the loop in which a failure of the perplexity computation is
\* not caught: the run ends without the sentence's record.
ProcessSentenceUncaught ==
    /\ pc = "loop"
    /\ sentences # <<>>
    /\ LET sentence        == Head(sentences)
           sentence_object == SentenceObject(sentence)
       IN  /\ sentences' = Tail(sentences)
           /\ consumed' = Append(consumed, sentence)
           /\ IF IsError(sentence_object)
              THEN /\ pc' = "crashed"
                   /\ printed' = printed
              ELSE \E intent \in Recognizer_recognize(recognizer,
                                     WordCasing(Strip(sentence_object.text))) :
                      \E perplexity \in (IF args.perplexity THEN BOOLEAN ELSE {TRUE}) :
                          IF perplexity
                          THEN /\ printed' = Append(printed,
                                        Merged(sentence_object, intent, args.perplexity))
                               /\ pc' = IF Tail(sentences) = <<>> THEN "done" ELSE "loop"
                          ELSE /\ printed' = printed
                               /\ pc' = "crashed"
    /\ UNCHANGED <<train_vars, record_vars, grammars, slots, settings, args, fsts, intent_fst, recognizer,
                   vocab, examples, emitted>>

\* A pass of the loop whose call adds the words of its text to the known
\* tokens of the recognizer.
ProcessSentenceLearns ==
    /\ pc = "loop"
    /\ sentences # <<>>
    /\ LET sentence        == Head(sentences)
           sentence_object == SentenceObject(sentence)
       IN  /\ sentences' = Tail(sentences)
           /\ consumed' = Append(consumed, sentence)
           /\ IF IsError(sentence_object)
              THEN /\ pc' = "crashed"
                   /\ printed' = printed
                   /\ recognizer' = recognizer
              ELSE /\ \E intent \in Recognizer_recognize(recognizer,
                                        WordCasing(Strip(sentence_object.text))) :
                        \E perplexity \in (IF args.perplexity THEN BOOLEAN ELSE {FALSE}) :
                           printed' = Append(printed, Merged(sentence_object, intent, perplexity))
                   /\ pc' = IF Tail(sentences) = <<>> THEN "done" ELSE "loop"
                   /\ recognizer' =
                        [recognizer EXCEPT !.known_tokens =
                            LET words == Split(sentence_object.text)
                            IN  @ \cup {words[n] : n \in 1..Len(words)}]
    /\ UNCHANGED <<train_vars, record_vars, grammars, slots, settings, args, fsts, intent_fst,
                   vocab, examples, emitted>>

\* One pass of the loop over the sentences.  With --perplexity the external
\* tools either give a value or fail; the failure is logged and dropped.
ProcessSentence ==
    /\ pc = "loop"
    /\ sentences # <<>>
    /\ LET sentence        == Head(sentences)
           sentence_object == SentenceObject(sentence)
       IN  /\ sentences' = Tail(sentences)
           /\ consumed' = Append(consumed, sentence)
           /\ IF IsError(sentence_object)
              THEN /\ pc' = "crashed"
                   /\ printed' = printed
              ELSE /\ \E intent \in Recognizer_recognize(recognizer,
                                        WordCasing(Strip(sentence_object.text))) :
                        \E perplexity \in (IF args.perplexity THEN BOOLEAN ELSE {FALSE}) :
                           printed' = Append(printed, Merged(sentence_object, intent, perplexity))
                   /\ pc' = IF Tail(sentences) = <<>> THEN "done" ELSE "loop"
    /\ UNCHANGED <<train_vars, record_vars, grammars, slots, settings, args, fsts, intent_fst, recognizer,
                   vocab, examples, emitted>>

-----------------------------------------------------------------------------
(* The generate-examples command.                                          *)

ExhaustionError == [error |-> "ExhaustionError"]

\* The states reachable from the states S.
RECURSIVE ReachFrom(_, _)
ReachFrom(a, S) ==
    LET T == S \cup {arc.to : arc \in {x \in ArcsOf(a) : x.from \in S}}
    IN  IF T = S THEN S ELSE ReachFrom(a, T)

\* A cycle that can be reached from the start state.
HasCycle(a) ==
    \E arc \in ArcsOf(a) :
        /\ arc.from \in ReachFrom(a, {a.start})
        /\ arc.from \in ReachFrom(a, {arc.to})

\* The accepting paths from state q of at most n arcs.
RECURSIVE PathsWithin(_, _, _)
PathsWithin(a, q, n) ==
    (IF IsFinal(a, q) THEN {<<>>} ELSE {})
        \cup (IF n = 0 THEN {}
              ELSE UNION {{<<m>> \o p : p \in PathsWithin(a, a.arcs[m].to, n - 1)} :
                          m \in {x \in 1..Len(a.arcs) : a.arcs[x].from = q}})

\* The paths random sampling can draw: every accepting path; around a cycle
\* at most MaxLoop arcs more than the automaton has states.
MaxLoop == 1

RandPaths(a) ==
    IF HasCycle(a) THEN PathsWithin(a, a.start, a.next + MaxLoop) ELSE AllPaths(a)

\* The automaton sampling returns: one chain of fresh states per drawn
\* path, all from the start state 0.
RECURSIVE ChainFrom(_, _, _, _)
ChainFrom(a, ps, k, cur) ==
    IF k > Len(ps) THEN cur
    ELSE LET p    == ps[k]
             base == cur.next
         IN  ChainFrom(a, ps, k + 1,
                 [start  |-> 0,
                  finals |-> cur.finals \cup {IF p = <<>> THEN 0 ELSE base + Len(p) - 1},
                  arcs   |-> cur.arcs \o
                                 [j \in 1..Len(p) |->
                                     Arc(IF j = 1 THEN 0 ELSE base + j - 2, base + j - 1,
                                         a.arcs[p[j]].i, a.arcs[p[j]].o)],
                  next   |-> base + Len(p)])

\* fst.randgen: the automata it may return for npath draws.
randgen(a, npath) ==
    {ChainFrom(a, ps, 1, [start |-> 0, finals |-> {}, arcs |-> <<>>, next |-> 1]) :
        ps \in [1..npath -> RandPaths(a)]}

\* The paths of S in construction order.
RECURSIVE InOrder(_)
InOrder(S) ==
    IF S = {} THEN <<>>
    ELSE LET p == CHOOSE x \in S : \A y \in S : y = x \/ Earlier(x, y)
         IN  <<p>> \o InOrder(S \ {p})

\* fstprintall: every accepting path of the automaton; the enumeration of
\* an automaton with a cycle does not end but exhausts the resources.
fstprintall(a) ==
    IF HasCycle(a) THEN ExhaustionError
    ELSE [fst |-> a, paths |-> InOrder(AllPaths(a))]

\* Slots in which an earlier entity keeps its place.
Slots_FirstWins(entities) ==
    [name \in {entities[e].entity : e \in 1..Len(entities)} |->
        entities[CHOOSE e \in 1..Len(entities) :
                    /\ entities[e].entity = name
                    /\ \A f \in 1..(e - 1) : entities[f].entity # name].value]

\* The slots of an intent: each entity's value under the entity's name, a
\* later entity overwriting an earlier one of the same name.
Slots(entities) ==
    [name \in {entities[e].entity : e \in 1..Len(entities)} |->
        entities[CHOOSE e \in 1..Len(entities) :
                    /\ entities[e].entity = name
                    /\ \A f \in (e + 1)..Len(entities) : entities[f].entity # name].value]

WithSlots(intent) ==
    [text |-> intent.text, tokens |-> intent.tokens, intent |-> intent.intent,
     entities |-> intent.entities, slots |-> Slots(intent.entities)]

\* len(word): the letters of the words of the profiles.
Chars(word) ==
    CASE word \in {"is", "it", "on", "uh"} -> 2
      [] word \in {"off", "the"} -> 3
      [] word \in {"what", "time", "turn", "hall", "then", "ping", "pong",
                   "very", "good"} -> 4
      [] word \in {"light", "relay"} -> 5
      [] word \in {"please", "garage"} -> 6
      [] word = "kitchen" -> 7
      [] OTHER -> 1

\* entity_start and entity_end: the entity of a dict built from the list
\* by its start or end, where a later entity replaces an earlier one.
EntityAt(entities, key, idx) ==
    LET at == {n \in 1..Len(entities) : entities[n][key] = idx}
    IN  IF at = {} THEN None
        ELSE entities[CHOOSE n \in at : \A m \in at : m <= n]

Outside == [tag |-> "O", entity |-> ""]

\* The tags of the words from the n-th on: token_idx is advanced by the
\* letters of each word and one, and looked up in both dicts.
RECURSIVE IobFrom(_, _, _, _, _)
IobFrom(tokens, n, token_idx, entity, entities) ==
    IF n > Len(tokens) THEN <<>>
    ELSE LET begin == EntityAt(entities, "start", token_idx)
             named == IF begin # None THEN begin.entity ELSE entity
             tag   == IF begin # None THEN [tag |-> "B", entity |-> named]
                      ELSE IF entity = "" THEN Outside
                      ELSE [tag |-> "I", entity |-> entity]
             next  == token_idx + Chars(tokens[n]) + 1
         IN  <<tag>> \o IobFrom(tokens, n + 1, next,
                                IF EntityAt(entities, "end", next - 1) # None
                                THEN "" ELSE named,
                                entities)

\* The line of --iob: the words, a tag for each, and the intent name.
Iob(intent) ==
    [words |-> intent.tokens,
     tags  |-> IobFrom(intent.tokens, 1, 0, "", intent.entities),
     name  |-> intent.intent.name]

\* A start that draws one path less than asked for.
GenerateStart_OneLess ==
    /\ pc = "trained"
    /\ args.command = "generate-examples"
    /\ \E rand_fst \in (IF args.number <= 0 THEN {intent_fst}
                         ELSE randgen(intent_fst, args.number - 1)) :
           examples' = fstprintall(rand_fst)
    /\ pc' = IF IsError(examples') THEN "crashed"
             ELSE IF examples'.paths = <<>> THEN "done" ELSE "generate"
    /\ UNCHANGED <<train_vars, record_vars, grammars, slots, settings, args, fsts, intent_fst, recognizer,
                   sentences, consumed, printed, vocab, emitted>>

\* A start that samples also when the count is 0.
GenerateStart_SampleAtZero ==
    /\ pc = "trained"
    /\ args.command = "generate-examples"
    /\ \E rand_fst \in (IF args.number < 0 THEN {intent_fst}
                         ELSE randgen(intent_fst, args.number)) :
           examples' = fstprintall(rand_fst)
    /\ pc' = IF IsError(examples') THEN "crashed"
             ELSE IF examples'.paths = <<>> THEN "done" ELSE "generate"
    /\ UNCHANGED <<train_vars, record_vars, grammars, slots, settings, args, fsts, intent_fst, recognizer,
                   sentences, consumed, printed, vocab, emitted>>

\* check_trained, the automaton read, and the sampling or the whole
\* automaton handed to fstprintall.
GenerateStart ==
    /\ pc = "trained"
    /\ args.command = "generate-examples"
    /\ \E rand_fst \in (IF args.number <= 0 THEN {intent_fst}
                         ELSE randgen(intent_fst, args.number)) :
           examples' = fstprintall(rand_fst)
    /\ pc' = IF IsError(examples') THEN "crashed"
             ELSE IF examples'.paths = <<>> THEN "done" ELSE "generate"
    /\ UNCHANGED <<train_vars, record_vars, grammars, slots, settings, args, fsts, intent_fst, recognizer,
                   sentences, consumed, printed, vocab, emitted>>

\* One pass of the loop over the symbol lists: the line of --raw-symbols,
\* or the decoded intent with its slots, as tagged words with --iob and as
\* JSON without.
GenerateExample ==
    /\ pc = "generate"
    /\ LET symbols == OutputSymbols(examples.fst, examples.paths[Len(emitted) + 1])
           intent  == symbols2intent(symbols)
       IN  IF args.raw_symbols
           THEN /\ emitted' = Append(emitted, [raw |-> symbols])
                /\ pc' = IF Len(emitted') = Len(examples.paths) THEN "done" ELSE "generate"
           ELSE IF IsError(intent)
           THEN /\ emitted' = emitted
                /\ pc' = "crashed"
           ELSE /\ emitted' = Append(emitted, IF args.iob THEN Iob(WithSlots(intent))
                                              ELSE WithSlots(intent))
                /\ pc' = IF Len(emitted') = Len(examples.paths) THEN "done" ELSE "generate"
    /\ UNCHANGED <<train_vars, record_vars, grammars, slots, settings, args, fsts, intent_fst, recognizer,
                   sentences, consumed, printed, vocab, examples>>

-----------------------------------------------------------------------------
(* The profiles, settings and inputs the runs are drawn from.              *)

Lit(ws) == [n \in 1..Len(ws) |-> Literal(ws[n])]

GetTime == Sequence(Lit(<<"what", "time", "is", "it">>))

SetLight ==
    Sequence(<<Literal("turn"),
               Tagged(Alternation(Lit(<<"on", "off">>)), "state"),
               Literal("the"),
               Tagged(SlotRef("$room"), "room"),
               Literal("light")>>)

TurnOn == Sequence(Lit(<<"turn", "on">>))

Switch ==
    Sequence(<<Literal("turn"),
               Tagged(Alternation(Lit(<<"on", "off">>)), "state"),
               Optional(Literal("please"))>>)

Ask ==
    Sequence(<<Tagged(Sequence(<<Literal("what"), Tagged(Literal("time"), "unit")>>),
                      "question"),
               Optional(Sequence(Lit(<<"is", "it">>)))>>)

\* The same tag twice.
Toggle ==
    Sequence(<<Tagged(Alternation(Lit(<<"on", "off">>)), "state"),
               Literal("then"),
               Tagged(Alternation(Lit(<<"on", "off">>)), "state")>>)

\* A reference to the rule of another grammar.
Polite == Sequence(<<Literal("please"), RuleRef("GetTime")>>)

NoSlots == [name \in {} |-> <<>>]

Profiles ==
    {[grammars |-> [name \in {"GetTime"} |-> GetTime], slots |-> NoSlots],
     [grammars |-> [name \in {"GetTime", "SetLight"} |->
                       IF name = "GetTime" THEN GetTime ELSE SetLight],
      slots |-> [name \in {"$room"} |-> <<"kitchen", "hall">>]],
     [grammars |-> [name \in {"TurnOn", "Switch"} |->
                       IF name = "TurnOn" THEN TurnOn ELSE Switch],
      slots |-> NoSlots],
     [grammars |-> [name \in {"Ask", "GetTime"} |->
                       IF name = "Ask" THEN Ask ELSE GetTime],
      slots |-> NoSlots]}

\* Profiles of the generate-examples runs only.
GenProfiles ==
    {[grammars |-> [name \in {"Toggle", "Polite", "GetTime"} |->
                       CASE name = "Toggle" -> Toggle
                         [] name = "Polite" -> Polite
                         [] OTHER -> GetTime],
      slots |-> NoSlots]}

\* Rules that refer to each other, and one that refers to one of them.
Ping == Sequence(<<Literal("ping"), RuleRef("Pong")>>)
Pong == Sequence(<<Literal("pong"), RuleRef("Ping")>>)
Relay == Sequence(<<Literal("relay"), RuleRef("Ping")>>)

Whitelist(lines) == [k |-> "file", lines |-> lines]

\* Profiles whose training fails, and profiles with a whitelist: only
\* blank lines; one intent, with blanks around it; one intent twice; an
\* intent that is no section; an intent whose grammar refers to a rule of
\* an intent that is left out.
TrainProfiles ==
    {[grammars |-> [name \in {"Ping", "Pong", "Relay", "GetTime"} |->
                       CASE name = "Ping" -> Ping
                         [] name = "Pong" -> Pong
                         [] name = "Relay" -> Relay
                         [] OTHER -> GetTime],
      slots |-> NoSlots, intent_whitelist |-> None],
     [grammars |-> [name \in {"Polite", "TurnOn"} |->
                       IF name = "Polite" THEN Polite ELSE TurnOn],
      slots |-> NoSlots, intent_whitelist |-> None],
     [grammars |-> [name \in {"GetTime", "SetLight"} |->
                       IF name = "GetTime" THEN GetTime ELSE SetLight],
      slots |-> NoSlots, intent_whitelist |-> None]}
    \cup
    {[grammars |-> [name \in {"GetTime", "SetLight"} |->
                       IF name = "GetTime" THEN GetTime ELSE SetLight],
      slots |-> [name \in {"$room"} |-> <<"kitchen", "hall">>],
      intent_whitelist |-> Whitelist(lines)] :
        lines \in {<<<<>>, <<Sp>>>>,
                   <<<<Sp, "GetTime", Sp>>>>,
                   <<<<>>, <<"SetLight">>, <<"SetLight", Sp>>>>,
                   <<<<"GetTime">>, <<"Other">>>>}}
    \cup
    {[grammars |-> [name \in {"Polite", "GetTime"} |->
                       IF name = "Polite" THEN Polite ELSE GetTime],
      slots |-> NoSlots, intent_whitelist |-> Whitelist(<<<<"Polite">>>>)]}

\* An intent.fst with a cycle, as a profile may hold it that no training
\* run of this model has written: "good", "very good", "very very good"...
CyclicFst ==
    [start |-> 0, finals |-> {1}, next |-> 4,
     arcs |-> <<Arc(0, 2, Eps, INTENT_OPEN("Praise")),
                Arc(2, 2, Word("very"), Word("very")),
                Arc(2, 3, Word("good"), Word("good")),
                Arc(3, 1, Eps, INTENT_CLOSE)>>]

MaxInsert == 1
MaxDelete == 1
MaxBatch == 2
MaxNumber == 2

\* Words put into a sentence: no grammar has "uh"; "garage" is in no slot.
ExtraWords == {"uh", "garage"}

StopFile == [k |-> "file", lines |-> <<"uh">>]

\* The sentences the grammars of a profile accept.
Accepted(profile) ==
    LET slot_fsts == [name \in DOMAIN profile.slots |-> slots_to_fsts(profile.slots[name])]
    IN  UNION {LET fst == grammar_to_fsts(profile.grammars[intent], slot_fsts)
               IN  {InputWords(fst, p) : p \in AllPaths(fst)} :
               intent \in DOMAIN profile.grammars}

InsertAt(ws, n, w) == SubSeq(ws, 1, n) \o <<w>> \o SubSeq(ws, n + 1, Len(ws))
DeleteAt(ws, n) == SubSeq(ws, 1, n - 1) \o SubSeq(ws, n + 1, Len(ws))
ReplaceAt(ws, n, w) == [ws EXCEPT ![n] = w]

RECURSIVE Inserted(_, _)
Inserted(S, n) ==
    IF n = 0 THEN S
    ELSE LET T == Inserted(S, n - 1)
         IN  T \cup UNION {{InsertAt(ws, m, w) : m \in 0..Len(ws), w \in ExtraWords} : ws \in T}

RECURSIVE Deleted(_, _)
Deleted(S, n) ==
    IF n = 0 THEN S
    ELSE LET T == Deleted(S, n - 1)
         IN  T \cup UNION {{DeleteAt(ws, m) : m \in 1..Len(ws)} : ws \in T}

Plain(text) == [kind |-> "plain", text |-> text, wav_name |-> ""]
Object(text) == [kind |-> "object", text |-> text, wav_name |-> "a.wav"]

\* Token sequences: the accepted sentences, with words put in, left out or
\* replaced, and in upper case; and the empty line.
Inputs(profile) ==
    LET acc == Accepted(profile)
    IN  Inserted(acc, MaxInsert) \cup Deleted(acc, MaxDelete)
            \cup UNION {{ReplaceAt(ws, m, w) : m \in 1..Len(ws), w \in ExtraWords} : ws \in acc}
            \cup {upper(ws) : ws \in acc}
            \cup {<<>>}

SettingsSet ==
    [fuzzy : BOOLEAN, skip_unknown : BOOLEAN, lower_case : BOOLEAN,
     stop_words_path : {None, StopFile}, word_casing : {"ignore"}]
    \cup
    [fuzzy : BOOLEAN, skip_unknown : {TRUE}, lower_case : {FALSE},
     stop_words_path : {None}, word_casing : {"upper", "lower"}]

BatchSettings ==
    [fuzzy : BOOLEAN, skip_unknown : {TRUE}, lower_case : {FALSE},
     stop_words_path : {None}, word_casing : {"ignore"}]

\* The lines of a batch: a sentence some grammar accepts, the same with a
\* word put in, and one no grammar accepts.
BatchTexts(profile) ==
    LET first == CHOOSE ws \in Accepted(profile) :
                     \A other \in Accepted(profile) : Len(ws) <= Len(other)
    IN  {Join(first), Join(<<"uh">> \o first), Join(<<"garage">>)}

Batches(profile, text_input) ==
    LET lines == IF text_input THEN {Plain(t) : t \in BatchTexts(profile)}
                 ELSE {Object(t) : t \in BatchTexts(profile)} \cup {Plain(Join(<<"garage">>))}
    IN  UNION {[1..n -> lines] : n \in 0..MaxBatch}

RecognizeArgs ==
    [command : {"recognize-intent"}, text_input : BOOLEAN, perplexity : BOOLEAN,
     number : {0}, raw_symbols : {FALSE}, iob : {FALSE}]

GenerateArgs ==
    [command : {"generate-examples"}, text_input : {FALSE}, perplexity : {FALSE},
     number : (0 - 1)..MaxNumber, raw_symbols : BOOLEAN, iob : {FALSE}]
    \cup
    [command : {"generate-examples"}, text_input : {FALSE}, perplexity : {FALSE},
     number : (0 - 1)..MaxNumber, raw_symbols : {FALSE}, iob : {TRUE}]

Runs(profile) ==
    {[settings |-> s, args |-> a,
      sentences |-> <<Plain(<<Sp>> \o Join(ws) \o <<Sp>>)>>] :
        s \in SettingsSet, ws \in Inputs(profile),
        a \in {x \in RecognizeArgs : x.text_input /\ ~x.perplexity}}
    \cup
    UNION {{[settings |-> s, args |-> a, sentences |-> b] :
               s \in BatchSettings, b \in Batches(profile, a.text_input)} :
           a \in RecognizeArgs}

\* The generate-examples runs: the settings play no part in them.
GenerateRuns ==
    {[settings |-> s, args |-> a, sentences |-> <<>>] :
        s \in {x \in BatchSettings : x.fuzzy}, a \in GenerateArgs}

-----------------------------------------------------------------------------

\* The runs of the profiles of TrainProfiles: generate-examples of every
\* path.
TrainRuns == {run \in GenerateRuns : run.args.number = 0}

\* Every name an artifact of fsts_dir may have in a run.
ArtifactNames ==
    used_intents \cup DOMAIN grammars \cup DOMAIN slots
        \cup UNION {Refs(grammars[name]) : name \in DOMAIN grammars}

\* record-examples has not been started.
NotRecording ==
    /\ audio_source = None
    /\ chunk = 0
    /\ recording = FALSE
    /\ audio_data = <<>>
    /\ loaded = <<>>
    /\ record_thread = "off"
    /\ random_intent = None
    /\ wavs = <<>>
    /\ heard = <<>>

\* A profile before training, with the command to run after it; or a
\* profile that holds an intent.fst already, with a generate-examples run.
Init ==
    /\ \/ /\ \E profile \in Profiles \cup GenProfiles :
                /\ grammars = profile.grammars
                /\ slots = profile.slots
                /\ intent_whitelist = None
                /\ \E run \in (IF profile \in Profiles THEN Runs(profile) ELSE {})
                                 \cup GenerateRuns :
                      /\ settings = run.settings
                      /\ args = run.args
                      /\ sentences = run.sentences
          /\ intent_fst = None
          /\ pc = "grammars"
       \/ /\ \E profile \in TrainProfiles :
                /\ grammars = profile.grammars
                /\ slots = profile.slots
                /\ intent_whitelist = profile.intent_whitelist
                /\ \E run \in TrainRuns :
                      /\ settings = run.settings
                      /\ args = run.args
                      /\ sentences = run.sentences
          /\ intent_fst = None
          /\ pc = "grammars"
       \/ /\ grammars = [name \in {} |-> GetTime]
          /\ slots = NoSlots
          /\ intent_whitelist = None
          /\ \E run \in GenerateRuns :
                /\ settings = run.settings
                /\ args = run.args
                /\ sentences = run.sentences
          /\ intent_fst = CyclicFst
          /\ pc = "trained"
    /\ used_intents = Intents(DOMAIN grammars, intent_whitelist)
    /\ failure = None
    /\ NotRecording
    /\ fsts = [name \in ArtifactNames |-> None]
    /\ recognizer = None
    /\ consumed = <<>>
    /\ printed = <<>>
    /\ vocab = None
    /\ examples = None
    /\ emitted = <<>>

Next ==
    \/ DoGrammarDependencies
    \/ DoSlotsToFst
    \/ \E intent \in used_intents : DoGrammarToFsts(intent)
    \/ TaskFails
    \/ DoIntentFst
    \/ DoVocab
    \/ GetRecognizer
    \/ ProcessSentence
    \/ GenerateStart
    \/ GenerateExample

Spec == Init /\ [][Next]_vars

-----------------------------------------------------------------------------
(* Acceptance by subset simulation: the set of states reachable after each *)
(* token, closed under epsilon-input arcs.                                 *)

RECURSIVE EpsClosure(_, _)
EpsClosure(a, S) ==
    LET T == S \cup {arc.to : arc \in {x \in ArcsOf(a) : x.from \in S /\ x.i = Eps}}
    IN  IF T = S THEN S ELSE EpsClosure(a, T)

RECURSIVE ReachedAfter(_, _, _, _)
ReachedAfter(a, tokens, pos, S) ==
    IF pos > Len(tokens) THEN S
    ELSE ReachedAfter(a, tokens, pos + 1,
             EpsClosure(a, {arc.to : arc \in {x \in ArcsOf(a) :
                                        x.from \in S /\ x.i = Word(tokens[pos])}}))

Accepts(a, tokens) ==
    ReachedAfter(a, tokens, 1, EpsClosure(a, {a.start})) \cap a.finals # {}

-----------------------------------------------------------------------------
(* The loop's records against its input.                                   *)

LoopEntered == recognizer # None /\ ~IsError(recognizer)

WellFormed(sentence) == ~IsError(SentenceObject(sentence))

\* The text Recognizer.recognize is called with for an input sentence.
TextOf(sentence) == WordCasing(Strip(SentenceObject(sentence).text))

\* The tokens the recognize function is given: the method has applied
\* lower_case.
TokensOf(sentence) ==
    Split(IF recognizer.lower_case THEN lower(TextOf(sentence)) ELSE TextOf(sentence))

Strict == LoopEntered /\ recognizer.class = "StrictRecognizer"
Fuzzy == LoopEntered /\ recognizer.class = "FuzzyRecognizer"

Records == 1..Len(printed)

\* C1 as stated: strict recognition returns a non-empty intent if and only
\* if some path from the start state consumes every input token in order
\* and ends in an accepting state.
C1_AcceptsIffPathConsumesEveryToken ==
    Strict =>
        \A n \in Records :
            printed[n].intent.name # Null <=> Accepts(intent_fst, TokensOf(consumed[n]))

\* C1 amended: strict recognition returns a non-empty intent if and only if
\* some path from the start state consumes, in order, every token the
\* known-token pre-pass leaves (with skip_unknown the tokens outside the
\* vocabulary are dropped first) and ends in an accepting state; the proper
\* prefix "what time" of "what time is it" is rejected.
C1_AcceptsIffPathConsumesKnownTokens ==
    Strict =>
        \A n \in Records :
            /\ printed[n].intent.name # Null
                   <=> Accepts(intent_fst,
                               KnownOnly(TokensOf(consumed[n]), recognizer.known_tokens))
            /\ (DOMAIN grammars = {"GetTime"} /\ TokensOf(consumed[n]) = <<"what", "time">>)
                   => printed[n].intent.name = Null

\* A strict call with skip_unknown has accepted "what time is it garage",
\* the unknown word "garage" dropped by the pre-pass.
C1_Witness ==
    /\ Strict
    /\ DOMAIN grammars = {"GetTime"}
    /\ \E n \in Records :
          /\ TokensOf(consumed[n]) = <<"what", "time", "is", "it", "garage">>
          /\ recognizer.known_tokens # {}
          /\ printed[n].intent.name = "GetTime"

\* C2: when strict recognition finds no accepting path, the call returns
\* the empty-intent sentinel (intent.name null, no entities) as a value: the
\* record of that sentence is written and the run is in no error state.
C2_NoPathGivesEmptyIntent ==
    Strict =>
        \A n \in 1..Len(consumed) :
            (/\ WellFormed(consumed[n])
             /\ PathsConsuming(intent_fst,
                    KnownOnly(TokensOf(consumed[n]), recognizer.known_tokens),
                    intent_fst.start, 1) = {})
            => /\ n \in Records
               /\ printed[n].intent.name = Null
               /\ printed[n].entities = <<>>
               /\ n = Len(consumed) => pc # "crashed"

\* A strict call has returned the sentinel for a sentence with "garage",
\* which no slot holds.
C2_Witness ==
    /\ Strict
    /\ "SetLight" \in DOMAIN grammars
    /\ pc = "done"
    /\ \E n \in Records :
          /\ TokensOf(consumed[n]) = <<"turn", "on", "the", "garage", "light">>
          /\ printed[n].intent.name = Null
          /\ printed[n].entities = <<>>

\* The record of an input sentence: the sentence object with the keys of
\* one of the results the recognizer may return for it.
RecordsOf(sentence) ==
    {Merged(SentenceObject(sentence), intent, perplexity) :
        intent \in Recognizer_recognize(recognizer, TextOf(sentence)),
        perplexity \in BOOLEAN}

OneRecordPerSentence ==
    /\ Len(printed) = Len(consumed)
    /\ \A n \in Records : printed[n] \in RecordsOf(consumed[n])
    /\ sentences # <<>> => pc = "loop"

RunTokens ==
    {Split(sentence.text) : sentence \in
        {sentences[n] : n \in 1..Len(sentences)} \cup {consumed[n] : n \in 1..Len(consumed)}}

\* C4: the merged automaton accepts a token sequence if and only if at
\* least one of the per-intent automata accepts it.
C4_UnionCompleteness ==
    intent_fst # None =>
        \A tokens \in RunTokens :
            Accepts(intent_fst, tokens)
                <=> \E intent \in DOMAIN grammars : Accepts(fsts[intent], tokens)

\* The merged automaton of two intents accepts a sentence that only one of
\* them accepts.
C4_Witness ==
    /\ intent_fst # None
    /\ \E tokens \in RunTokens :
          /\ Accepts(intent_fst, tokens)
          /\ \E intent \in DOMAIN grammars : ~Accepts(fsts[intent], tokens)

\* C5: on every accepting path of the merged automaton the decoded intent
\* name is the name of the INTENT_OPEN marker the path starts with, and the
\* automaton of the intent of that name accepts the sentence; so does every
\* name a strict call reports.
C5_IntentNameIsBranchName ==
    intent_fst # None =>
        /\ \A tokens \in RunTokens :
              \A p \in PathsConsuming(intent_fst, tokens, intent_fst.start, 1) :
                  LET name == symbols2intent(OutputSymbols(intent_fst, p)).intent.name
                  IN  /\ intent_fst.arcs[p[1]].o = INTENT_OPEN(name)
                      /\ name \in DOMAIN grammars
                      /\ Accepts(fsts[name], tokens)
        /\ Strict =>
              \A n \in Records :
                  printed[n].intent.name # Null =>
                      Accepts(fsts[printed[n].intent.name],
                              KnownOnly(TokensOf(consumed[n]), recognizer.known_tokens))

\* A strict call has reported SetLight for a sentence GetTime rejects.
C5_Witness ==
    /\ Strict
    /\ \E n \in Records :
          /\ printed[n].intent.name = "SetLight"
          /\ ~Accepts(fsts["GetTime"], TokensOf(consumed[n]))

-----------------------------------------------------------------------------
(* Markers on paths.                                                       *)

\* Whether the markers of symbols open and close like brackets; open is
\* the stack of the scopes open so far.
RECURSIVE NestedFrom(_, _, _)
NestedFrom(symbols, n, open) ==
    IF n > Len(symbols) THEN open = <<>>
    ELSE CASE symbols[n].k = "intent_open" ->
                NestedFrom(symbols, n + 1, <<"intent">> \o open)
           [] symbols[n].k = "entity_open" ->
                NestedFrom(symbols, n + 1, <<"entity">> \o open)
           [] symbols[n].k = "entity_close" ->
                open # <<>> /\ open[1] = "entity" /\ NestedFrom(symbols, n + 1, Tail(open))
           [] symbols[n].k = "intent_close" ->
                open # <<>> /\ open[1] = "intent" /\ NestedFrom(symbols, n + 1, Tail(open))
           [] OTHER -> NestedFrom(symbols, n + 1, open)

WellNested(symbols) == NestedFrom(symbols, 1, <<>>)

Count(symbols, kind) == Len(SelectSeq(symbols, LAMBDA sym : sym.k = kind))

\* One intent scope, opened by the first symbol and closed by the last.
OneIntentScope(symbols) ==
    /\ symbols # <<>>
    /\ symbols[1].k = "intent_open"
    /\ symbols[Len(symbols)].k = "intent_close"
    /\ Count(symbols, "intent_open") = 1
    /\ Count(symbols, "intent_close") = 1

\* C6: on every accepting path of every automaton the Builder and the
\* Merger have produced the markers are properly nested and balanced; on
\* the merged automaton every accepting path has exactly one
\* INTENT_OPEN / INTENT_CLOSE pair, the outermost scope, with every
\* entity scope inside it.
C6_MarkersWellNested ==
    /\ \A name \in DOMAIN fsts :
          fsts[name] # None =>
              \A p \in AllPaths(fsts[name]) : WellNested(OutputSymbols(fsts[name], p))
    /\ (intent_fst # None /\ DOMAIN grammars # {}) =>
          \A p \in AllPaths(intent_fst) :
              /\ WellNested(OutputSymbols(intent_fst, p))
              /\ OneIntentScope(OutputSymbols(intent_fst, p))

\* The merged automaton has a path with an entity scope inside another.
C6_Witness ==
    /\ intent_fst # None
    /\ DOMAIN grammars # {}
    /\ \E p \in AllPaths(intent_fst) :
          LET symbols == OutputSymbols(intent_fst, p)
          IN  /\ Count(symbols, "entity_open") = 2
              /\ \E n \in 1..(Len(symbols) - 1) :
                    symbols[n].k = "entity_open" /\ symbols[n + 1].k = "word"
                        /\ symbols[n + 2].k = "entity_open"

\* The arc of path p that closes the entity scope its arc n opens.
ClosingArc(a, p, n) ==
    CHOOSE m \in (n + 1)..Len(p) :
        /\ a.arcs[p[m]].o = ENTITY_CLOSE
        /\ \A l \in (n + 1)..m :
              Cardinality({x \in (n + 1)..l : a.arcs[p[x]].o = ENTITY_CLOSE})
                  <= Cardinality({x \in (n + 1)..l : a.arcs[p[x]].o.k = "entity_open"})
                         + (IF l = m THEN 1 ELSE 0)
        /\ Cardinality({x \in (n + 1)..m : a.arcs[p[x]].o = ENTITY_CLOSE})
              = Cardinality({x \in (n + 1)..m : a.arcs[p[x]].o.k = "entity_open"}) + 1

\* The words path p consumes on its arcs from..to.
WordsOn(a, p, from, to) == InputWords(a, SubSeq(p, from, to))

\* C7: for every template compiled to an automaton and every accepting
\* path of it, the decoded intent has, for every Tagged span, an entity
\* whose value is the space-joined words matched under the span, and its
\* token list is the sequence of input symbols the path consumed.
C7_RoundTrip ==
    \A name \in DOMAIN grammars :
        fsts[name] # None =>
            \A p \in AllPaths(fsts[name]) :
                LET a      == fsts[name]
                    intent == symbols2intent(OutputSymbols(a, p))
                IN  /\ IsIntent(intent)
                    /\ intent.tokens = InputWords(a, p)
                    /\ \A n \in {m \in 1..Len(p) : a.arcs[p[m]].o.k = "entity_open"} :
                          \E e \in 1..Len(intent.entities) :
                              /\ intent.entities[e].entity = a.arcs[p[n]].o.v
                              /\ intent.entities[e].start = Len(WordsOn(a, p, 1, n))
                              /\ intent.entities[e].value
                                     = Join(WordsOn(a, p, n + 1, ClosingArc(a, p, n)))

-----------------------------------------------------------------------------
(* Stop words.                                                             *)

\* The whole input of the run, read or not.
AllSentences == consumed \o sentences

Ended == pc \in {"done", "crashed"}

\* The stop words the profile configures.
ConfiguredStopWords ==
    IF settings.stop_words_path = None THEN {}
    ELSE {settings.stop_words_path.lines[n] : n \in 1..Len(settings.stop_words_path.lines)}

\* The known tokens and the text of a call, from the settings alone.
SettingsKnownTokens == IF settings.skip_unknown THEN KnownTokens(intent_fst) ELSE {}

SettingsText(sentence) ==
    IF settings.lower_case THEN lower(TextOf(sentence)) ELSE TextOf(sentence)

AtLeast(c, d) == c[1] * d[2] >= d[1] * c[2]

\* C8: for every automaton, input and stop-word set S under which fuzzy
\* recognition matches the input, fuzzy recognition with S and one more
\* token returns a confidence greater than or equal to the one with S: a
\* fuzzy run whose profile configures the stop words S and w has, for every
\* sentence that matches under S, a record with at least that confidence.
C8_StopWordMonotone ==
    (Ended /\ settings.fuzzy /\ \A n \in 1..Len(AllSentences) : WellFormed(AllSentences[n]))
        => \A w \in ConfiguredStopWords :
              \A n \in 1..Len(AllSentences) :
                  \A r \in recognize_fuzzy(fst_to_graph(intent_fst),
                                           SettingsText(AllSentences[n]),
                                           SettingsKnownTokens,
                                           ConfiguredStopWords \ {w}) :
                      r.intent.name # Null =>
                          /\ n \in Records
                          /\ AtLeast(printed[n].intent.confidence, r.intent.confidence)

\* C9: for the same automaton, known-token set and input the strict
\* recognizer returns the same result whatever stop-word set is configured:
\* a strict run has for every sentence the record strict recognition gives
\* with no stop word at all.
C9_StrictIgnoresStopWords ==
    (Ended /\ ~settings.fuzzy /\ \A n \in 1..Len(AllSentences) : WellFormed(AllSentences[n]))
        => \A n \in 1..Len(AllSentences) :
              /\ n \in Records
              /\ \E r \in recognize(intent_fst, SettingsText(AllSentences[n]),
                                    SettingsKnownTokens) :
                    /\ printed[n].text = r.text
                    /\ printed[n].tokens = r.tokens
                    /\ printed[n].intent = r.intent
                    /\ printed[n].entities = r.entities

-----------------------------------------------------------------------------
(* Determinism.                                                            *)

Result(record) ==
    [text |-> record.text, tokens |-> record.tokens, intent |-> record.intent,
     entities |-> record.entities]

-----------------------------------------------------------------------------
(* Fuzzy recognition.                                                      *)

\* The words that label an arc of automaton a.
ArcWords(a) == {arc.i.v : arc \in {x \in ArcsOf(a) : x.i.k = "word"}}

\* A token that can count as a match: no stop word, and a word of the graph.
Meaningful(w) == w \notin recognizer.stop_words /\ w \in ArcWords(intent_fst)

IsSentinel(record) ==
    /\ record.intent.name = Null
    /\ record.intent.confidence[1] = 0
    /\ record.entities = <<>>

Insertable(w) ==
    \/ w \in ConfiguredStopWords
    \/ settings.skip_unknown /\ w \notin ArcWords(intent_fst)

WithoutInserted(tokens) == SelectSeq(tokens, LAMBDA w : ~Insertable(w))

NamesAndValues(entities) ==
    [e \in 1..Len(entities) |-> <<entities[e].entity, entities[e].value>>]

\* C12: for an input obtained from a strictly accepted sentence by
\* inserting stop-word tokens (and, with skip_unknown, unknown tokens), a
\* fuzzy run gives the intent name and the entities, names and values, of
\* strict recognition of the sentence without them, with a confidence
\* below 1.
C12_FuzzyOfInsertedIsStrict ==
    (Ended /\ settings.fuzzy /\ \A n \in 1..Len(AllSentences) : WellFormed(AllSentences[n]))
        => \A n \in 1..Len(AllSentences) :
              LET tokens   == Split(SettingsText(AllSentences[n]))
                  sentence == WithoutInserted(tokens)
              IN  (sentence # tokens /\ Accepts(intent_fst, sentence))
                      => /\ n \in Records
                         /\ \E r \in recognize(intent_fst, Join(sentence), {}) :
                               /\ printed[n].intent.name = r.intent.name
                               /\ NamesAndValues(printed[n].entities)
                                      = NamesAndValues(r.entities)
                         /\ printed[n].intent.confidence[1]
                                < printed[n].intent.confidence[2]

\* The positions of the tokens that label no arc of the merged automaton.
UnknownAt(tokens) == {m \in 1..Len(tokens) : tokens[m] \notin ArcWords(intent_fst)}

Least(S) == CHOOSE x \in S : \A y \in S : x <= y

\* C13: in fuzzy recognition a token outside the known-token set is skipped
\* when skip_unknown is enabled: the result is the one for the input
\* without its unknown tokens; when skip_unknown is disabled get_recognizer
\* passes an empty known-token set and the token blocks the exact
\* continuation: no token at or after the first unknown one is matched.
C13_UnknownSkippedOrBlocks ==
    Fuzzy =>
        /\ recognizer.known_tokens
               = (IF settings.skip_unknown THEN ArcWords(intent_fst) ELSE {})
        /\ \A n \in Records :
              LET tokens == TokensOf(consumed[n])
                  known  == SelectSeq(tokens, LAMBDA w : w \in ArcWords(intent_fst))
              IN  UnknownAt(tokens) # {} =>
                      IF settings.skip_unknown
                      THEN \E r \in recognize_fuzzy(recognizer.intent_graph, Join(known),
                                                    recognizer.known_tokens,
                                                    recognizer.stop_words) :
                              /\ printed[n].intent.name = r.intent.name
                              /\ printed[n].intent.confidence[1] = r.intent.confidence[1]
                              /\ NamesAndValues(printed[n].entities)
                                     = NamesAndValues(r.entities)
                      ELSE printed[n].intent.confidence[1] < Least(UnknownAt(tokens))

\* With skip_unknown disabled a fuzzy call has matched the tokens before
\* "garage" and none of the known tokens after it.
C13_Witness ==
    /\ Fuzzy
    /\ ~settings.skip_unknown
    /\ \E n \in Records :
          LET tokens == TokensOf(consumed[n])
          IN  /\ UnknownAt(tokens) = {3}
              /\ Len(tokens) = 5
              /\ printed[n].intent.name # Null
              /\ printed[n].intent.confidence = Confidence(2, 5)

\* C14: building a recognizer never fails because of the stop-word input:
\* with no stop-word file configured the recognizer is built with an empty
\* stop-word set, and with a readable file configured it is built with the
\* set of the file's stripped lines.
C14_StopWordsNeverFail ==
    recognizer # None =>
        /\ ~IsError(recognizer)
        /\ recognizer.class = "FuzzyRecognizer"
               => recognizer.stop_words = ConfiguredStopWords

-----------------------------------------------------------------------------
(* Letter case in the recognizer.                                          *)

\* What the recognize function of the recognizer's class returns for a
\* text taken as it is.
ExactResults(text) ==
    {Result(r) :
        r \in IF recognizer.class = "FuzzyRecognizer"
              THEN recognize_fuzzy(recognizer.intent_graph, text,
                                   recognizer.known_tokens, recognizer.stop_words)
              ELSE recognize(recognizer.intent_fst, text, recognizer.known_tokens)}

\* C15 as stated: Recognizer.recognize, strict and fuzzy, performs no case
\* normalization: the tokens matched against the automaton are exactly the
\* tokens of the text the caller passes.
C15_NoCaseNormalization ==
    LoopEntered =>
        \A n \in Records : Result(printed[n]) \in ExactResults(TextOf(consumed[n]))

\* C15 amended: Recognizer.recognize, strict and fuzzy, lowers the text it
\* is passed when the profile sets intent-recognition.lower-case and
\* performs no case normalization otherwise (the default): then the tokens
\* matched are exactly the tokens of the text the caller passes, and a
\* text in upper case is another input than the same text in lower case.
C15_CaseNormalizedOnlyByLowerCase ==
    LoopEntered =>
        \A n \in Records :
            Result(printed[n])
                \in ExactResults(IF settings.lower_case THEN lower(TextOf(consumed[n]))
                                 ELSE TextOf(consumed[n]))

\* Without lower-case a strict call has rejected a sentence in upper case
\* that the automaton accepts in lower case.
C15_Witness ==
    /\ Strict
    /\ ~settings.lower_case
    /\ ~settings.skip_unknown
    /\ \E n \in Records :
          /\ TextOf(consumed[n]) # lower(TextOf(consumed[n]))
          /\ Accepts(intent_fst, Split(lower(TextOf(consumed[n]))))
          /\ printed[n].intent.name = Null

-----------------------------------------------------------------------------
(* Vocabulary.                                                             *)

VocabWords == {vocab.lines[n] : n \in 1..Len(vocab.lines)}

\* C16: the vocabulary do_vocab writes and the known-token set
\* get_recognizer builds with skip_unknown are both exactly the set of the
\* words that label a transition of the merged automaton: every such word
\* is in them, and neither epsilon nor a marker is.
C16_VocabularyIsArcWords ==
    /\ vocab # None =>
          /\ VocabWords = ArcWords(intent_fst)
          /\ Eps.v \notin VocabWords
          /\ \A n, m \in 1..Len(vocab.lines) : vocab.lines[n] = vocab.lines[m] => n = m
    /\ (LoopEntered /\ settings.skip_unknown) =>
          /\ recognizer.known_tokens = ArcWords(intent_fst)
          /\ Eps.v \notin recognizer.known_tokens
          /\ recognizer.known_tokens = VocabWords

\* The vocabulary is written and a recognizer with skip_unknown is built
\* for a profile whose automaton has the words of a slot and markers.
C16_Witness ==
    /\ vocab # None
    /\ LoopEntered
    /\ settings.skip_unknown
    /\ "kitchen" \in VocabWords
    /\ "kitchen" \in recognizer.known_tokens
    /\ \E arc \in ArcsOf(intent_fst) : arc.o.k = "entity_open"

-----------------------------------------------------------------------------
(* Example generation.                                                     *)

Generating == args.command = "generate-examples" /\ pc \in {"generate", "done", "crashed"}

\* The words among the symbols of a --raw-symbols line.
WordsOf(symbols) ==
    LET words == SelectSeq(symbols, IsWord)
    IN  [n \in 1..Len(words) |-> words[n].v]

\* The accepting paths of the merged automaton that consume the tokens.
AcceptingPaths(tokens) == PathsConsuming(intent_fst, tokens, intent_fst.start, 1)

\* An emitted line is the decoding of an accepting path of intent_fst.
IsExample(line) ==
    IF args.iob
    THEN \E p \in AcceptingPaths(line.words) :
            intent_fst.arcs[p[1]].o = INTENT_OPEN(line.name)
    ELSE IF args.raw_symbols
    THEN \E p \in AcceptingPaths(WordsOf(line.raw)) :
            line.raw = OutputSymbols(intent_fst, p)
    ELSE /\ line.text = Join(line.tokens)
         /\ Accepts(intent_fst, line.tokens)
         /\ \E p \in AcceptingPaths(line.tokens) :
               /\ intent_fst.arcs[p[1]].o = INTENT_OPEN(line.intent.name)
               /\ NamesAndValues(line.entities)
                      = NamesAndValues(symbols2intent(OutputSymbols(intent_fst, p)).entities)

\* C17: example generation with a count N > 0 emits exactly N examples,
\* and each of them is the decoding of one accepting path of the merged
\* automaton: its text is a sentence the automaton strictly accepts and
\* its intent name is that path's intent.
C17_ExactlyNExamples ==
    (Generating /\ args.number > 0) =>
        /\ pc # "crashed"
        /\ Len(emitted) <= args.number
        /\ pc = "done" => Len(emitted) = args.number
        /\ \A n \in 1..Len(emitted) : IsExample(emitted[n])

\* A run with count 2 has ended with the same example twice.
C17_Witness ==
    /\ Generating
    /\ pc = "done"
    /\ args.number = 2
    /\ ~args.raw_symbols
    /\ ~args.iob
    /\ Len(emitted) = 2
    /\ emitted[1] = emitted[2]
    /\ emitted[1].entities # <<>>

\* The line generate writes for path p of the merged automaton.
LineOf(p) ==
    IF args.raw_symbols THEN [raw |-> OutputSymbols(intent_fst, p)]
    ELSE IF args.iob THEN Iob(WithSlots(symbols2intent(OutputSymbols(intent_fst, p))))
    ELSE WithSlots(symbols2intent(OutputSymbols(intent_fst, p)))

C19_SlotsFoldEntities ==
    (Generating /\ ~args.raw_symbols /\ ~args.iob) =>
        \A n \in 1..Len(emitted) :
            LET entities == emitted[n].entities
                slots_   == emitted[n].slots
            IN  /\ DOMAIN slots_ = {entities[e].entity : e \in 1..Len(entities)}
                /\ \A e \in 1..Len(entities) :
                      (\A f \in (e + 1)..Len(entities) :
                           entities[f].entity # entities[e].entity)
                          => slots_[entities[e].entity] = entities[e].value
                /\ entities = <<>> => DOMAIN slots_ = {}

\* A record with two entities "state", on and off, has the slot state =
\* off; another record of the run has no entity and no slot.
C19_Witness ==
    /\ Generating
    /\ ~args.raw_symbols
    /\ ~args.iob
    /\ \E m, n \in 1..Len(emitted) :
          /\ Len(emitted[n].entities) = 2
          /\ emitted[n].entities[1].entity = "state"
          /\ emitted[n].entities[1].value = <<"on">>
          /\ emitted[n].entities[2].entity = "state"
          /\ emitted[n].entities[2].value = <<"off">>
          /\ emitted[n].slots["state"] = <<"off">>
          /\ emitted[m].entities = <<>>
          /\ DOMAIN emitted[m].slots = {}

-----------------------------------------------------------------------------
(* Build order.                                                            *)

\* C20: in every training run the step that builds the automaton of a
\* grammar is taken only when the automaton of every slot and rule the
\* grammar refers to is built and stored, and the step that merges the
\* intent automata only when the automaton of every intent is built.
C20_BuildOrder ==
    [][/\ \A intent \in DOMAIN grammars :
             (fsts[intent] = None /\ fsts'[intent] # None)
                 => \A name \in Refs(grammars[intent]) : fsts[name] # None
       /\ (intent_fst = None /\ intent_fst' # None)
             => \A intent \in used_intents : fsts[intent] # None]_vars

\* The grammar that refers to the rule of another grammar is built, and
\* the three intents are merged.
C20_Witness ==
    /\ "Polite" \in DOMAIN grammars
    /\ fsts["Polite"] # None
    /\ Refs(grammars["Polite"]) = {"GetTime"}
    /\ intent_fst # None

-----------------------------------------------------------------------------
(* Cycles of references.                                                   *)

\* The intents whose grammar is on a cycle of references or refers, directly
\* or not, to one that is.
DependsOnCycle(intent) == \E n \in {intent} \cup Reach(intent) : OnCycle(n)

\* The rules of the cycle an intent is on.
CycleOf(intent) == {n \in Reach(intent) : intent \in Reach(n)}

Cyclic == \E intent \in used_intents : OnCycle(intent)

Failed(error) == failure # None /\ failure.error = error

\* When the references form a cycle the run can only fail, the failure
\* names the rules of a cycle, and no automaton that depends on the cycle
\* is built, nor the merged one.
CycleIsFatal ==
    /\ Cyclic => pc \in {"grammars", "train", "failed"} /\ intent_fst = None
    /\ (Cyclic /\ pc = "train") =>
           \E f \in TaskFailures : f.error = "CyclicDependency"
    /\ Failed("CyclicDependency") =>
           /\ pc = "failed"
           /\ \E intent \in used_intents :
                 OnCycle(intent) /\ CycleOf(intent) \subseteq failure.names
    /\ \A intent \in used_intents : DependsOnCycle(intent) => fsts[intent] = None

-----------------------------------------------------------------------------
(* References that cannot be resolved.                                     *)

\* A reference of a used intent's grammar that nothing in the run builds:
\* a slot without a slot file, a rule of no used intent.
Unresolved(intent, name) ==
    /\ intent \in used_intents \cap DOMAIN grammars
    /\ \/ name \in Uses(grammars[intent], "slotref") \ DOMAIN slots
       \/ name \in Uses(grammars[intent], "ruleref") \ used_intents

\* C22: a reference to a rule or slot that is not defined, or whose
\* automaton is missing when the referencing grammar is built, is fatal:
\* the automaton of the referencing intent is never built (nor the merged
\* one), and the failure names the reference and the intent.
C22_UnresolvedReferenceIsFatal ==
    /\ \A intent \in used_intents : \A name \in DOMAIN fsts :
           Unresolved(intent, name) => fsts[intent] = None /\ intent_fst = None
    /\ (Failed("DependencyError") /\ pc = "failed"
            /\ \E intent \in used_intents : \E name \in DOMAIN fsts :
                   Unresolved(intent, name))
           => \E intent \in used_intents : \E name \in DOMAIN fsts :
                  /\ Unresolved(intent, name)
                  /\ name \in failure.names
                  /\ failure.task = intent

-----------------------------------------------------------------------------
(* A failure ends the run.                                                 *)

-----------------------------------------------------------------------------
(* The set of intents of a training run.                                   *)

\* The lines of the whitelist file that are not blank.
NonBlank ==
    IF intent_whitelist = None THEN {}
    ELSE {n \in 1..Len(intent_whitelist.lines) :
             \E m \in 1..Len(intent_whitelist.lines[n]) :
                 intent_whitelist.lines[n][m] # Sp}

\* The names on them, without the blanks around.
Whitelisted ==
    {w \in UNION {{intent_whitelist.lines[n][m] :
                      m \in 1..Len(intent_whitelist.lines[n])} : n \in NonBlank} :
        w # Sp}

\* The intents whose INTENT_OPEN marker is on an arc of intent.fst.
MergedIntents ==
    {arc.o.v : arc \in {x \in ArcsOf(intent_fst) : x.o.k = "intent_open"}}

\* C29: the set of intents of a training run is the set of the stripped
\* non-blank lines of the whitelist when the file exists and has such a
\* line, and the set of section names of the sentences file otherwise; the
\* merge reads every intent of that set and no other.
C29_IntentsAreWhitelistOrSections ==
    /\ used_intents = IF NonBlank # {} THEN Whitelisted ELSE DOMAIN grammars
    /\ (intent_fst # None /\ DOMAIN grammars # {}) => MergedIntents = used_intents

\* Of the sections GetTime and SetLight the whitelist names SetLight, on
\* two lines after a blank one: SetLight alone is merged.
C29_Witness ==
    /\ DOMAIN grammars = {"GetTime", "SetLight"}
    /\ intent_whitelist # None
    /\ Len(intent_whitelist.lines) = 3
    /\ intent_fst # None
    /\ MergedIntents = {"SetLight"}

-----------------------------------------------------------------------------
(* Calls share the recognizer.                                             *)

\* The results of a call that is the only one made on a recognizer loaded
\* from the same profile and automaton.
Alone(text) ==
    {Result(r) : r \in Recognizer_recognize(get_recognizer(settings, intent_fst), text)}

-----------------------------------------------------------------------------
(* The Symbol Decoder's tokens, text and entities.                         *)

\* The symbol list of the n-th line of a generate-examples run.
SymbolsOfLine(n) == OutputSymbols(examples.fst, examples.paths[n])

\* The lines written as JSON.
Decoded ==
    IF Generating /\ ~args.raw_symbols /\ ~args.iob
          /\ examples # None /\ ~IsError(examples)
    THEN 1..Len(emitted) ELSE {}

\* The text is the tokens with one blank between two of them.
SingleSpaced(text, tokens) ==
    /\ Len(text) = IF tokens = <<>> THEN 0 ELSE 2 * Len(tokens) - 1
    /\ \A m \in 1..Len(text) :
          text[m] = IF m % 2 = 1 THEN tokens[(m + 1) \div 2] ELSE Sp

\* C25: the token list of a decoded symbol sequence is exactly the words
\* of the sequence, in order, every marker left out, and the text is the
\* token list joined by single spaces.
C25_TokensAreTheWordsInOrder ==
    \A n \in Decoded :
        /\ emitted[n].tokens = WordsOf(SymbolsOfLine(n))
        /\ \A m \in 1..Len(emitted[n].tokens) : emitted[n].tokens[m] \notin {"", Sp}
        /\ SingleSpaced(emitted[n].text, emitted[n].tokens)

\* A line of three tokens decoded from a path with two entity scopes.
C25_Witness ==
    \E n \in Decoded :
        /\ emitted[n].tokens = <<"on", "then", "off">>
        /\ Len(SymbolsOfLine(n)) = 9
        /\ Len(emitted[n].text) = 5

\* The positions of the ENTITY_CLOSE markers of a symbol list, in order.
Closes(symbols) == {i \in 1..Len(symbols) : symbols[i].k = "entity_close"}

\* The ENTITY_OPEN that the ENTITY_CLOSE at position i closes: the last one
\* before i with as many opens as closes in between.
OpenOf(symbols, i) ==
    CHOOSE j \in 1..(i - 1) :
        /\ symbols[j].k = "entity_open"
        /\ Count(SubSeq(symbols, j + 1, i - 1), "entity_open")
               = Count(SubSeq(symbols, j + 1, i - 1), "entity_close")
        /\ \A k \in (j + 1)..(i - 1) :
              symbols[k].k = "entity_open" =>
                  Count(SubSeq(symbols, k + 1, i - 1), "entity_open")
                      # Count(SubSeq(symbols, k + 1, i - 1), "entity_close")

\* The token index current at position i: the words before it.
TokenIndex(symbols, i) == Count(SubSeq(symbols, 1, i - 1), "word")

\* C26: for every ENTITY_OPEN(slot)/ENTITY_CLOSE pair of a decoded
\* sequence there is one entity, of that slot, whose start is the token
\* index at the ENTITY_OPEN and whose end is the token index at the
\* ENTITY_CLOSE, so 0 <= start <= end <= number of tokens; the tokens from
\* start up to end are exactly the words of its value; and the entities
\* come in the order in which their scopes close.
C26_EntitySpansAreTokenRanges ==
    \A n \in Decoded :
        LET symbols  == SymbolsOfLine(n)
            entities == emitted[n].entities
            tokens   == emitted[n].tokens
        IN  /\ Len(entities) = Cardinality(Closes(symbols))
            /\ \A e \in 1..Len(entities) :
                  LET i == CHOOSE c \in Closes(symbols) :
                               Cardinality({d \in Closes(symbols) : d <= c}) = e
                      j == OpenOf(symbols, i)
                  IN  /\ entities[e].entity = symbols[j].v
                      /\ entities[e].start = TokenIndex(symbols, j)
                      /\ entities[e].end = TokenIndex(symbols, i)
                      /\ 0 <= entities[e].start
                      /\ entities[e].start <= entities[e].end
                      /\ entities[e].end <= Len(tokens)
                      /\ SubSeq(tokens, entities[e].start + 1, entities[e].end)
                             = Split(entities[e].value)

-----------------------------------------------------------------------------
(* Tagging and acceptance.                                                 *)

\* The token sequences automaton a accepts.
Language(a) == {InputWords(a, p) : p \in AllPaths(a)}

\* A template and every template inside it.
RECURSIVE SubTemplates(_)
SubTemplates(t) ==
    {t} \cup
    CASE t.k \in {"sequence", "alternation"} ->
           UNION {SubTemplates(t.ts[n]) : n \in 1..Len(t.ts)}
      [] t.k \in {"optional", "tagged"} -> SubTemplates(t.t)
      [] OTHER -> {}

\* The template without its tags.
RECURSIVE Untagged(_)
Untagged(t) ==
    CASE t.k = "tagged" -> Untagged(t.t)
      [] t.k \in {"sequence", "alternation"} ->
           [t EXCEPT !.ts = [n \in 1..Len(t.ts) |-> Untagged(t.ts[n])]]
      [] t.k = "optional" -> [t EXCEPT !.t = Untagged(t.t)]
      [] OTHER -> t

\* The automata of what the grammar of a built intent refers to.
ReplaceFsts(intent) == [name \in Refs(grammars[intent]) |-> fsts[name]]

\* The intents whose automaton the run has just built.
JustBuilt ==
    IF pc = "train" THEN {i \in used_intents \cap DOMAIN grammars : fsts[i] # None} ELSE {}

\* C27: tagging does not change what is recognized.  For every template T
\* of a built grammar (the grammar and every template inside it) and a slot
\* name, the automaton of Tagged(T, slot) accepts exactly the token
\* sequences the automaton of T accepts; and the automaton the run built
\* of a grammar accepts exactly what the automaton of the grammar without
\* its tags accepts.
C27_TaggingKeepsAcceptedInputs ==
    \A intent \in JustBuilt :
        /\ \A t \in SubTemplates(grammars[intent]) : \A slot \in {"state", "room"} :
              Language(grammar_to_fsts(Tagged(t, slot), ReplaceFsts(intent)))
                  = Language(grammar_to_fsts(t, ReplaceFsts(intent)))
        /\ Language(fsts[intent])
              = Language(grammar_to_fsts(Untagged(grammars[intent]), ReplaceFsts(intent)))
        /\ \A tokens \in Language(fsts[intent]) : Accepts(fsts[intent], tokens)

\* The grammar with two tags and a slot reference is built: it accepts
\* four sentences, of words only.
C27_Witness ==
    /\ "SetLight" \in JustBuilt
    /\ Untagged(grammars["SetLight"]) # grammars["SetLight"]
    /\ Cardinality(Language(fsts["SetLight"])) = 4
    /\ <<"turn", "on", "the", "hall", "light">> \in Language(fsts["SetLight"])

-----------------------------------------------------------------------------
(* The path fuzzy recognition returns.                                     *)

\* The tokens the fuzzy recognizer matches for the n-th sentence.
FuzzyTokens(n) ==
    Split(IF recognizer.lower_case THEN lower(TextOf(consumed[n]))
          ELSE TextOf(consumed[n]))

\* Every path through the graph with its exact matches, its skipped and
\* inserted tokens and its length, for the n-th sentence.
Scores(n) ==
    [p \in AllPaths(recognizer.intent_graph) |->
        Score(recognizer.intent_graph, p, FuzzyTokens(n),
              recognizer.known_tokens, recognizer.stop_words)]

\* Of the paths of the table scores: those with the most exact matches;
\* of the paths P, those with the fewest skipped or inserted tokens; the
\* shortest; the first in construction order.
MostMatched(scores) ==
    {p \in DOMAIN scores : \A q \in DOMAIN scores : scores[q].matched <= scores[p].matched}

FewestSkipped(scores, P) == {p \in P : \A q \in P : scores[p].cost <= scores[q].cost}

Shortest(P) == {p \in P : \A q \in P : Len(p) <= Len(q)}

FirstBuilt(P) == {p \in P : \A q \in P : q = p \/ Earlier(p, q)}

-----------------------------------------------------------------------------
(* The record-examples command: the main thread prompts, resets the        *)
(* buffer, sets and clears the flag and saves; the recording thread reads  *)
(* chunks and appends them while the flag is set.  The two threads share   *)
(* audio_source, recording and audio_data without a lock; a step of the    *)
(* model is one read or one write of a shared variable.                    *)

\* The chunks the audio source delivers, and the prompts of a run.
MaxChunks == 3
MaxPrompts == 2

\* Everything record-examples only reads.
run_vars == <<grammars, slots, settings, args, fsts, intent_fst, recognizer,
              sentences, consumed, printed, vocab, examples, emitted, train_vars>>

\* get_wav_path: the text with every run of whitespace replaced by "_",
\* and the count.
get_wav_path(text, count) ==
    LET kept == {n \in 1..Len(text) : text[n] # Sp \/ n = 1 \/ text[n - 1] # Sp}
        pick[m \in 0..Len(text)] ==
            IF m = 0 THEN <<>>
            ELSE IF m \in kept
                 THEN Append(pick[m - 1], IF text[m] = Sp THEN "_" ELSE text[m])
                 ELSE pick[m - 1]
    IN  [text |-> pick[Len(text)], count |-> count]

\* generate_intent and the prints up to the first input().
Prompt ==
    /\ pc = "prompt"
    /\ Len(wavs) < MaxPrompts
    /\ \E p \in AllPaths(intent_fst) :
          random_intent' = symbols2intent(OutputSymbols(intent_fst, p))
    /\ pc' = "wait_start"
    /\ UNCHANGED <<run_vars, audio_source, chunk, recording, audio_data, loaded,
                   record_thread, wavs, heard>>

\* ENTER, then audio_data = bytes().
ResetBuffer ==
    /\ pc = "wait_start"
    /\ audio_data' = <<>>
    /\ pc' = "start"
    /\ UNCHANGED <<run_vars, audio_source, chunk, recording, loaded,
                   record_thread, random_intent, wavs, heard>>

\* recording = True, and the print up to the second input().
StartRecording ==
    /\ pc = "start"
    /\ recording' = TRUE
    /\ heard' = Append(heard, <<>>)
    /\ pc' = "wait_stop"
    /\ UNCHANGED <<run_vars, audio_source, chunk, audio_data, loaded,
                   record_thread, random_intent, wavs>>

\* ENTER, then recording = False.
StopRecording ==
    /\ pc = "wait_stop"
    /\ recording' = FALSE
    /\ pc' = "save"
    /\ UNCHANGED <<run_vars, audio_source, chunk, audio_data, loaded,
                   record_thread, random_intent, wavs, heard>>

\* The unique name, buffer_to_wav(audio_data) and the three files.
SaveWav ==
    /\ pc = "save"
    /\ LET text  == random_intent.text
           count == CHOOSE c \in 0..Len(wavs) :
                        /\ \A n \in 1..Len(wavs) : wavs[n].path # get_wav_path(text, c)
                        /\ \A b \in 0..(c - 1) :
                               \E n \in 1..Len(wavs) : wavs[n].path = get_wav_path(text, b)
       IN  wavs' = Append(wavs, [path   |-> get_wav_path(text, count),
                                 audio  |-> audio_data,
                                 text   |-> text,
                                 intent |-> random_intent])
    /\ pc' = "prompt"
    /\ UNCHANGED <<run_vars, audio_source, chunk, recording, audio_data, loaded,
                   record_thread, random_intent, heard>>

\* CTRL+C anywhere in the loop: audio_source = None.
Interrupt ==
    /\ pc \in {"prompt", "wait_start", "start", "wait_stop", "save"}
    /\ audio_source' = None
    /\ pc' = "join"
    /\ UNCHANGED <<run_vars, chunk, recording, audio_data, loaded,
                   record_thread, random_intent, wavs, heard>>

\* record_thread.join().
JoinThread ==
    /\ pc = "join"
    /\ record_thread \in {"done", "crashed"}
    /\ pc' = "done"
    /\ UNCHANGED <<run_vars, record_vars>>

\* record_audio: while audio_source is not None.
ThreadLoop ==
    /\ record_thread = "loop"
    /\ record_thread' = IF audio_source # None THEN "read" ELSE "done"
    /\ UNCHANGED <<run_vars, pc, audio_source, chunk, recording, audio_data, loaded,
                   random_intent, wavs, heard>>

\* chunk = audio_source.read(chunk_size); on None the call raises.
ThreadRead ==
    /\ record_thread = "read"
    /\ IF audio_source = None
       THEN /\ record_thread' = "crashed"
            /\ UNCHANGED <<audio_source, chunk, heard>>
       ELSE /\ audio_source.read < MaxChunks
            /\ audio_source' = [read |-> audio_source.read + 1]
            /\ chunk' = audio_source.read + 1
            /\ heard' = IF recording
                        THEN [heard EXCEPT ![Len(heard)] = Append(@, audio_source.read + 1)]
                        ELSE heard
            /\ record_thread' = "test"
    /\ UNCHANGED <<run_vars, pc, recording, audio_data, loaded, random_intent, wavs>>

\* if recording.
ThreadTest ==
    /\ record_thread = "test"
    /\ record_thread' = IF recording THEN "load" ELSE "loop"
    /\ UNCHANGED <<run_vars, pc, audio_source, chunk, recording, audio_data, loaded,
                   random_intent, wavs, heard>>

\* audio_data += chunk: the read of audio_data.
ThreadLoad ==
    /\ record_thread = "load"
    /\ loaded' = audio_data
    /\ record_thread' = "store"
    /\ UNCHANGED <<run_vars, pc, audio_source, chunk, recording, audio_data,
                   random_intent, wavs, heard>>

\* audio_data += chunk: the write of audio_data.
ThreadStore ==
    /\ record_thread = "store"
    /\ audio_data' = loaded \o <<chunk>>
    /\ record_thread' = "loop"
    /\ UNCHANGED <<run_vars, pc, audio_source, chunk, recording, loaded,
                   random_intent, wavs, heard>>

\* A trained profile of two intents; the audio source is open, the buffer
\* is empty, the flag is off and the recording thread has been started.
InitRecord ==
    /\ grammars = [name \in {"GetTime", "TurnOn"} |->
                      IF name = "GetTime" THEN GetTime ELSE TurnOn]
    /\ slots = NoSlots
    /\ intent_whitelist = None
    /\ used_intents = Intents(DOMAIN grammars, intent_whitelist)
    /\ failure = None
    /\ settings = [fuzzy |-> TRUE, skip_unknown |-> TRUE, lower_case |-> FALSE,
                   stop_words_path |-> None, word_casing |-> "ignore"]
    /\ args = [command |-> "record-examples", chunk_size |-> 1]
    /\ sentences = <<>>
    /\ fsts = [name \in ArtifactNames |-> grammar_to_fsts(grammars[name], <<>>)]
    /\ intent_fst = do_intent_fst(<<"GetTime", "TurnOn">>, fsts)
    /\ vocab = do_vocab(intent_fst)
    /\ recognizer = None
    /\ consumed = <<>>
    /\ printed = <<>>
    /\ examples = None
    /\ emitted = <<>>
    /\ audio_source = [read |-> 0]
    /\ chunk = 0
    /\ recording = FALSE
    /\ audio_data = <<>>
    /\ loaded = <<>>
    /\ record_thread = "loop"
    /\ random_intent = None
    /\ wavs = <<>>
    /\ heard = <<>>
    /\ pc = "prompt"

NextRecord ==
    \/ Prompt
    \/ ResetBuffer
    \/ StartRecording
    \/ StopRecording
    \/ SaveWav
    \/ Interrupt
    \/ JoinThread
    \/ ThreadLoop
    \/ ThreadRead
    \/ ThreadTest
    \/ ThreadLoad
    \/ ThreadStore

SpecRecord == InitRecord /\ [][NextRecord]_vars

\* C30: under every interleaving of the two threads the audio saved for a
\* prompt is exactly the chunks the recording thread read between that
\* prompt's start of recording and its stop, in read order.
C30_SavedAudioIsWhatWasRead ==
    \A n \in 1..Len(wavs) : wavs[n].audio = heard[n]

====
